---------------------------- MODULE Spec2Model ----------------------------
(***************************************************************************)
(* MarkTex: Markdown to LaTeX.  A model of the escaper                     *)
(* (src/src/utils/latexEscape.ts), the table processor                     *)
(* (src/unnamed/part_004, services/tableProcessor.ts) and the renderer     *)
(* (src/src/services/latexRenderer.ts).                                    *)
(*                                                                         *)
(* A JavaScript string is modelled as the sequence of its UTF-16 code      *)
(* units.  An ASCII code unit is the one-character string of that          *)
(* character; any other code unit is written "Uxxxx" (its hexadecimal      *)
(* value), e.g. "U00A7" for the section sign and "U4E2D" for a CJK         *)
(* ideograph; the grave accent, which a TLA+ string cannot hold, is        *)
(* "U0060".                                                                *)
(*                                                                         *)
(* Each component has its own specification (EscSpec, TblSpec, RndSpec);   *)
(* in a component's specification the variables of the other components    *)
(* keep their idle values.                                                 *)
(***************************************************************************)
EXTENDS Integers, Sequences, FiniteSets, TLC

VARIABLES
    escText,          \* escapeLaTeX: the argument text
    escPreserveMath,  \* escapeLaTeX: the argument preserveMath
    escResult,        \* escapeLaTeX: the returned string
    escWidth,         \* getTextWidth: the returned number
    escPc             \* "call" before a function ran, "done" after escapeLaTeX
                      \* returned, "width" after getTextWidth returned

escVars == <<escText, escPreserveMath, escResult, escWidth, escPc>>

VARIABLES
    tblConfig,        \* TableProcessor.config
    tblRows,          \* processTable: the argument rows
    tblAlignments,    \* processTable: the argument alignments
    tblResult,        \* processTable: the returned TableProcessResult
    tblLocals,        \* processTable: the locals widths and specs of the call
    tblPc             \* "call" before processTable ran, "done" after it returned

tblVars == <<tblConfig, tblRows, tblAlignments, tblResult, tblLocals, tblPc>>

VARIABLES
    rndConfig,        \* LatexRenderer.tableProcessor.config
    rndPackages,      \* LatexRenderer.packages
    rndFlags,         \* LatexRenderer.flags
    rndCalls,         \* the documents render was called with, in order
    rndCallConfig,    \* the table configuration at the last call of render
    rndResult         \* the LatexRenderResult of the last call of render

rndVars == <<rndConfig, rndPackages, rndFlags, rndCalls, rndCallConfig, rndResult>>

VARIABLES
    genResult,        \* generate: the argument renderResult
    genConfig,        \* generate: the argument config
    genForExport,     \* generate: the argument forExport
    genOutput,        \* generate: the returned document, as its lines
    genPc             \* "call" before generate ran, "done" after it returned

genVars == <<genResult, genConfig, genForExport, genOutput, genPc>>

VARIABLES
    cmpWindow,        \* the engine constructors registered on window
    cmpEngine,        \* SwiftLaTeXService.engine: "null" or its constructor
    cmpDvipdfmEngine, \* SwiftLaTeXService.dvipdfmEngine is not null
    cmpEngineStatus,  \* SwiftLaTeXService.engineStatus
    cmpIsLoading,     \* SwiftLaTeXService.isLoading
    cmpFontStatus,    \* SwiftLaTeXService.fontStatus['regular']
    cmpHasChinese,    \* compile: latexContent holds an ideograph
    cmpLatexResult,   \* compile: the result of engine.compileLaTeX()
    cmpPc,            \* the await compile is suspended at, "idle" outside a call
    cmpOutcome,       \* how the promise of the last compile call settled
    cmpCalls,         \* the number of compile calls so far
    cmpLatexContent,  \* compile: the argument latexContent, as its lines
    cmpMainTex,       \* the file main.tex of the engine, as its lines
    cmpProgress       \* what emitProgress delivered during the last call

cmpVars == <<cmpWindow, cmpEngine, cmpDvipdfmEngine, cmpEngineStatus,
             cmpIsLoading, cmpFontStatus, cmpHasChinese, cmpLatexResult,
             cmpPc, cmpOutcome, cmpCalls, cmpLatexContent, cmpMainTex,
             cmpProgress>>

VARIABLES
    ntfNotification,  \* useAppStore: the state field notification
    ntfTimers,        \* the pending setTimeout callbacks, by the call that set them
    ntfCalls          \* the number of showNotification calls so far

ntfVars == <<ntfNotification, ntfTimers, ntfCalls>>

VARIABLES
    hldResults        \* the results render returned, as their holders read them

hldVars == <<hldResults>>

VARIABLES
    strTokens,        \* renderTokens: the argument tokens
    strContent,       \* renderTokens: the returned string
    strPc             \* "call" before renderTokens ran, "done" after it returned

strVars == <<strTokens, strContent, strPc>>

VARIABLES
    iniPc,            \* initialize: the await each call is suspended at
    iniInstances,     \* the number of engine instances constructed so far
    iniHeld,          \* the instance this.engine holds, 0 when it is null
    iniClosed         \* the instances whose closeWorker was called

iniVars == <<iniPc, iniInstances, iniHeld, iniClosed>>

VARIABLES
    fpsPDFTeX,        \* window.PDFTeX is defined
    fpsIsLoading,     \* FrontendPdfService.isLoading
    fpsPc             \* FrontendPdfService.loadEngine: where each call is

fpsVars == <<fpsPDFTeX, fpsIsLoading, fpsPc>>

vars == <<escVars, tblVars, rndVars, genVars, cmpVars, ntfVars, hldVars, strVars, iniVars, fpsVars>>

----------------------------------------------------------------------------
(* Generic helpers. *)

Min(S) == CHOOSE x \in S : \A y \in S : x <= y

Max(S) == CHOOSE x \in S : \A y \in S : x >= y

\* The least element of a set of positions, 0 for the empty set.
First(S) == IF S = {} THEN 0 ELSE Min(S)

\* All sequences over S of length at most n.
SeqsUpTo(S, n) == UNION {[1..k -> S] : k \in 0..n}

\* String.prototype.indexOf: the first position of pat in text, 0 when absent.
IndexOf(text, pat) ==
    LET ps == {p \in 1..(Len(text) - Len(pat) + 1) :
                  SubSeq(text, p, p + Len(pat) - 1) = pat}
    IN  IF ps = {} THEN 0 ELSE Min(ps)

\* The sequence <<f(1), ..., f(n)>>, every element computed once as the loops
\* of the source compute their arrays.
SeqOf(n, f(_)) == <<>> \o [i \in 1..n |-> f(i)]

\* A local constant of the source: v is computed at the declaration, once,
\* and f reads its value.
Const(v, f(_)) == CHOOSE y \in {f(x) : x \in {v}} : TRUE

\* The sum s[lo] + ... + s[hi] of integers.
RECURSIVE SumRange(_, _, _)
SumRange(s, lo, hi) ==
    IF lo > hi THEN 0
    ELSE IF lo = hi THEN s[lo]
    ELSE SumRange(s, lo, (lo + hi) \div 2) + SumRange(s, (lo + hi) \div 2 + 1, hi)

\* The sum of a sequence of integers.
SumSeq(s) == SumRange(s, 1, Len(s))

\* The concatenation of the strings ss[lo], ..., ss[hi].
RECURSIVE ConcatRange(_, _, _)
ConcatRange(ss, lo, hi) ==
    IF lo > hi THEN <<>>
    ELSE IF lo = hi THEN ss[lo]
    ELSE LET mid == (lo + hi) \div 2
         IN  ConcatRange(ss, lo, mid) \o ConcatRange(ss, mid + 1, hi)

\* The concatenation of a sequence of strings.
Concat(ss) == ConcatRange(ss, 1, Len(ss))

----------------------------------------------------------------------------
(* latexEscape.ts *)

\* LATEX_SPECIAL_CHARS, in the order Object.entries enumerates it.
LATEX_SPECIAL_CHARS == <<
    [char |-> "\\", escaped |-> <<"\\", "t", "e", "x", "t", "b", "a", "c", "k",
                                  "s", "l", "a", "s", "h", "{", "}">>],
    [char |-> "&",  escaped |-> <<"\\", "&">>],
    [char |-> "%",  escaped |-> <<"\\", "%">>],
    [char |-> "$",  escaped |-> <<"\\", "$">>],
    [char |-> "#",  escaped |-> <<"\\", "#">>],
    [char |-> "_",  escaped |-> <<"\\", "_">>],
    [char |-> "{",  escaped |-> <<"\\", "{">>],
    [char |-> "}",  escaped |-> <<"\\", "}">>],
    [char |-> "~",  escaped |-> <<"\\", "t", "e", "x", "t", "a", "s", "c", "i",
                                  "i", "t", "i", "l", "d", "e", "{", "}">>],
    [char |-> "^",  escaped |-> <<"\\", "t", "e", "x", "t", "a", "s", "c", "i",
                                  "i", "c", "i", "r", "c", "u", "m", "{", "}">>] >>

SpecialChars == {LATEX_SPECIAL_CHARS[k].char : k \in 1..Len(LATEX_SPECIAL_CHARS)}

\* LATEX_SPECIAL_CHARS[c] for a special character c.
EscapedForm(c) ==
    LATEX_SPECIAL_CHARS[CHOOSE k \in 1..Len(LATEX_SPECIAL_CHARS) :
                            LATEX_SPECIAL_CHARS[k].char = c].escaped

\* GetSubstitution of String.prototype.replace for a pattern without capture
\* groups: in the replacement template "$$" stands for "$", "$&" for the
\* matched text, "$" and a grave accent for the text before the match, "$"
\* and an apostrophe for the text after it; every other "$" (also "$1" when
\* there is no group) is literal.  The template is read from position i on,
\* one such pair after the other.
RECURSIVE GetSubstitution(_, _, _, _, _)
GetSubstitution(tpl, i, matched, before, after) ==
    LET ps == {p \in i..(Len(tpl) - 1) :
                  tpl[p] = "$" /\ tpl[p + 1] \in {"$", "&", "U0060", "'"}}
    IN  IF ps = {} THEN SubSeq(tpl, i, Len(tpl))
        ELSE LET p == Min(ps)
             IN  SubSeq(tpl, i, p - 1)
                 \o (CASE tpl[p + 1] = "$" -> <<"$">>
                        [] tpl[p + 1] = "&" -> matched
                        [] tpl[p + 1] = "U0060" -> before
                        [] tpl[p + 1] = "'" -> after)
                 \o GetSubstitution(tpl, p + 2, matched, before, after)

\* text.replace(new RegExp('\\' + c, 'g'), tpl): every occurrence of the
\* character c is replaced by the expansion of the template tpl.
ReplaceAllChar(text, c, tpl) ==
    Concat(SeqOf(Len(text), LAMBDA i :
        IF text[i] = c
        THEN GetSubstitution(tpl, 1, <<c>>, SubSeq(text, 1, i - 1),
                             SubSeq(text, i + 1, Len(text)))
        ELSE <<text[i]>>))

\* text.replace(pat, tpl) with a string pattern: the first occurrence only.
ReplaceFirst(text, pat, tpl) ==
    LET p == IndexOf(text, pat)
    IN  IF p = 0 THEN text
        ELSE LET before == SubSeq(text, 1, p - 1)
                 after  == SubSeq(text, p + Len(pat), Len(text))
             IN  before \o GetSubstitution(tpl, 1, pat, before, after) \o after

\* escapeText: the backslash first, then the other entries in table order,
\* each pass over the result of the pass before it.  EscapePasses runs the
\* passes for the entries lo..hi.
RECURSIVE EscapePasses(_, _, _)
EscapePasses(text, lo, hi) ==
    IF lo = hi
    THEN ReplaceAllChar(text, LATEX_SPECIAL_CHARS[lo].char,
                        LATEX_SPECIAL_CHARS[lo].escaped)
    ELSE Const(EscapePasses(text, lo, (lo + hi) \div 2),
               LAMBDA result : EscapePasses(result, (lo + hi) \div 2 + 1, hi))

escapeText(text) == EscapePasses(text, 1, Len(LATEX_SPECIAL_CHARS))

\* /\$\$[\s\S]+?\$\$/ tried at position i: the last position of the match,
\* 0 when it does not match there (the lazy body ends at the first "$$" that
\* leaves it at least one character).
BlockMathEnd(text, i) ==
    IF i + 1 <= Len(text) /\ text[i] = "$" /\ text[i + 1] = "$"
    THEN LET js == {j \in (i + 3)..(Len(text) - 1) :
                       text[j] = "$" /\ text[j + 1] = "$"}
         IN  IF js = {} THEN 0 ELSE Min(js) + 1
    ELSE 0

\* /\$[^$]+?\$/ tried at position i: the body holds no "$", so the match ends
\* at the next "$", which must leave the body at least one character.
InlineMathEnd(text, i) ==
    IF text[i] = "$"
    THEN LET ks == {k \in (i + 1)..Len(text) : text[k] = "$"}
         IN  IF ks = {} \/ Min(ks) < i + 2 THEN 0 ELSE Min(ks)
    ELSE 0

\* /(\$\$[\s\S]+?\$\$|\$[^$]+?\$)/ tried at position i: the block alternative
\* first, the inline alternative when it fails.
MathEnd(text, i) ==
    IF BlockMathEnd(text, i) > 0 THEN BlockMathEnd(text, i)
    ELSE InlineMathEnd(text, i)

\* The decimal digits of a natural number.
RECURSIVE Digits(_)
Digits(n) ==
    LET d == <<"0", "1", "2", "3", "4", "5", "6", "7", "8", "9">>
    IN  IF n < 10 THEN <<d[n + 1]>> ELSE Digits(n \div 10) \o <<d[(n % 10) + 1]>>

\* The placeholder of math part number idx (counted from 0).
Placeholder(idx) ==
    <<"U00A7", "U00A7", "M", "A", "T", "H">> \o Digits(idx) \o <<"U00A7", "U00A7">>

\* The first position from i on at which the regular expression matches, 0
\* when there is none.
NextMath(text, i) == First({p \in i..Len(text) : MathEnd(text, p) > 0})

\* text.replace(/(...)/g, callback): the left-to-right scan from position i.
\* Each match is pushed to mathParts and replaced by its placeholder; the scan
\* resumes after the match.
RECURSIVE ExtractMath(_, _, _, _)
ExtractMath(text, i, result, mathParts) ==
    Const(NextMath(text, i),
          LAMBDA p :
    IF p = 0
    THEN [result |-> result \o SubSeq(text, i, Len(text)),
          mathParts |-> mathParts]
    ELSE Const([end |-> MathEnd(text, p),
                result |-> result \o SubSeq(text, i, p - 1)
                                  \o Placeholder(Len(mathParts))],
               LAMBDA x :
         ExtractMath(text, x.end + 1, x.result,
                     Append(mathParts, SubSeq(text, p, x.end)))))

\* mathParts.forEach: each placeholder is replaced, in order, by its math part,
\* which String.prototype.replace takes as a replacement template.
RECURSIVE RestoreMathFrom(_, _, _)
RestoreMathFrom(result, mathParts, index) ==
    IF index >= Len(mathParts) THEN result
    ELSE Const(ReplaceFirst(result, Placeholder(index), mathParts[index + 1]),
               LAMBDA restored : RestoreMathFrom(restored, mathParts, index + 1))

RestoreMath(result, mathParts) == RestoreMathFrom(result, mathParts, 0)

escapeLaTeX(text, preserveMath) ==
    IF text = <<>> THEN <<>>
    ELSE IF preserveMath
    THEN Const(ExtractMath(text, 1, <<>>, <<>>),
               LAMBDA x :
         Const(escapeText(x.result),
               LAMBDA result : RestoreMath(result, x.mathParts)))
    ELSE escapeText(text)

\* The code units of the non-ASCII characters the model's texts use.
NonAsciiCode == [
    U00A7 |-> 167,   U3042 |-> 12354, U4E00 |-> 19968, U4E2A |-> 20010,
    U4E2D |-> 20013, U4E8E |-> 20110, U52A8 |-> 21160, U53D1 |-> 21457,
    U5904 |-> 22788, U5F88 |-> 24456, U6027 |-> 24615, U6362 |-> 25442,
    U6587 |-> 25991, U660E |-> 26126, U672C |-> 26412, U6D4B |-> 27979,
    U7279 |-> 29305, U7406 |-> 29702, U7528 |-> 29992, U7684 |-> 30340,
    U81EA |-> 33258, U884C |-> 34892, U89E6 |-> 35302, U8BD5 |-> 35797,
    U8BF4 |-> 35828, U957F |-> 38271, U9FA5 |-> 40869, U9FA6 |-> 40870 ]

\* The range of the test without its last code unit.
IsCJKOpenEnd(c) ==
    /\ c \in DOMAIN NonAsciiCode
    /\ NonAsciiCode[c] >= 19968
    /\ NonAsciiCode[c] < 40869

\* /[\u4e00-\u9fa5]/.test(c) for one code unit c.
IsCJK(c) ==
    /\ c \in DOMAIN NonAsciiCode
    /\ NonAsciiCode[c] >= 19968
    /\ NonAsciiCode[c] <= 40869

\* hasChinese(text)
hasChinese(text) == \E i \in 1..Len(text) : IsCJK(text[i])

\* getTextWidth(text): 2 for each code unit in U+4E00..U+9FA5, 1 for any other.
getTextWidth(text) ==
    LET W[i \in 0..Len(text)] ==
            IF i = 0 THEN 0
            ELSE W[i - 1] + (IF IsCJK(text[i]) THEN 2 ELSE 1)
    IN  W[Len(text)]

----------------------------------------------------------------------------
(* services/tableProcessor.ts (src/unnamed/part_004).  Column indices are   *)
(* counted from 1 here and from 0 in the source.  A number of the width     *)
(* computation is a record [nan, v]: v is the number in hundredths (the     *)
(* source rounds every width to two decimals), nan marks NaN.               *)

Num(v) == [nan |-> FALSE, v |-> v]

NaN == [nan |-> TRUE, v |-> 0]

\* text.replace(/\*\*/g, ''): every "**", left to right, is removed; the
\* scan from position i on, one match after the other.
RECURSIVE StripDoubleStar(_, _)
StripDoubleStar(text, i) ==
    LET ps == {p \in i..(Len(text) - 1) : text[p] = "*" /\ text[p + 1] = "*"}
    IN  IF ps = {} THEN SubSeq(text, i, Len(text))
        ELSE SubSeq(text, i, Min(ps) - 1) \o StripDoubleStar(text, Min(ps) + 2)

\* text.replace(/\*/g, '')
StripStar(text) == SelectSeq(text, LAMBDA c : c # "*")

\* The characters "." does not match.
LineTerminators == {"\n", "\r", "U2028", "U2029"}

\* /d(.+?)d/ tried at position i for a delimiter d: the position of the
\* closing delimiter, 0 when it does not match there.
DelimitedEnd(text, i, d) ==
    IF i + Len(d) - 1 <= Len(text) /\ SubSeq(text, i, i + Len(d) - 1) = d
    THEN LET js == {j \in (i + Len(d) + 1)..(Len(text) - Len(d) + 1) :
                       /\ SubSeq(text, j, j + Len(d) - 1) = d
                       /\ \A k \in (i + Len(d))..(j - 1) :
                              text[k] \notin LineTerminators}
         IN  IF js = {} THEN 0 ELSE Min(js)
    ELSE 0

\* text.replace(/d(.+?)d/g, '$1'): each match is replaced by its body.
RECURSIVE Undelimit(_, _, _)
Undelimit(text, i, d) ==
    Const(First({p \in i..Len(text) : DelimitedEnd(text, p, d) > 0}),
          LAMBDA p :
    IF p = 0 THEN SubSeq(text, i, Len(text))
    ELSE Const(DelimitedEnd(text, p, d),
               LAMBDA j :
         SubSeq(text, i, p - 1) \o SubSeq(text, p + Len(d), j - 1)
         \o Undelimit(text, j + Len(d), d)))

\* /\[([^\]]+)\]\([^)]+\)/ tried at position i: <<k, m>>, the positions of
\* the "]" and of the closing ")", <<0, 0>> when it does not match there.
LinkEnd(text, i) ==
    IF text[i] # "[" THEN <<0, 0>>
    ELSE LET ks == {k \in (i + 1)..Len(text) : text[k] = "]"}
         IN  IF ks = {} \/ Min(ks) < i + 2 \/ Min(ks) + 1 > Len(text)
                \/ text[Min(ks) + 1] # "("
             THEN <<0, 0>>
             ELSE LET k  == Min(ks)
                      ms == {m \in (k + 2)..Len(text) : text[m] = ")"}
                  IN  IF ms = {} \/ Min(ms) < k + 3 THEN <<0, 0>>
                      ELSE <<k, Min(ms)>>

\* text.replace(/\[([^\]]+)\]\([^)]+\)/g, '$1')
RECURSIVE Unlink(_, _)
Unlink(text, i) ==
    Const(First({p \in i..Len(text) : LinkEnd(text, p)[1] > 0}),
          LAMBDA p :
    IF p = 0 THEN SubSeq(text, i, Len(text))
    ELSE Const(LinkEnd(text, p),
               LAMBDA e :
         SubSeq(text, i, p - 1) \o SubSeq(text, p + 1, e[1] - 1)
         \o Unlink(text, e[2] + 1)))

\* getCellDisplayLength(text)
getCellDisplayLength(text) ==
    IF text = <<>> THEN 0
    ELSE getTextWidth(
             Unlink(Undelimit(Undelimit(StripStar(StripDoubleStar(text, 1)),
                                        1, <<"~", "~">>),
                              1, <<"U0060">>),
                    1))

\* rows[row][col] || ''
CellAt(rows, row, col) ==
    IF col <= Len(rows[row]) THEN rows[row][col] ELSE <<>>

\* analyzeTable(rows, alignments).  The maximum of a column is taken over the
\* set of its cells, which is the maximum the row loop computes.
analyzeTable(rows, alignments, config) ==
    LET numRows == Len(rows)
        numCols == Len(rows[1])
    IN  Const(SeqOf(numCols, LAMBDA col :
                  Max({0} \cup {getCellDisplayLength(c) :
                                   c \in {CellAt(rows, row, col) : row \in 1..numRows}})),
              LAMBDA columnMaxLengths :
        LET isLong(col) == columnMaxLengths[col] >= config.autoWrapThreshold
        IN
        [numRows |-> numRows,
         numCols |-> numCols,
         columnMaxLengths |-> columnMaxLengths,
         hasLongText |-> \E col \in 1..numCols : isLong(col),
         longTextColumns |-> SelectSeq(SeqOf(numCols, LAMBDA col : col), isLong),
         alignments |-> IF Len(alignments) > 0 THEN alignments
                        ELSE SeqOf(numCols, LAMBDA col : "left"),
         totalContentLength |-> SumSeq(columnMaxLengths)])

\* selectEnvironment with the long-text test ahead of the row-count test.
selectEnvironmentLongTextFirst(analysis) ==
    IF ~analysis.hasLongText THEN "tabular"
    ELSE IF analysis.numRows > 30 THEN "longtable"
    ELSE IF analysis.numCols <= 5 THEN "tabularx"
    ELSE "tabular"

selectEnvironment(analysis) ==
    IF analysis.numRows > 30 THEN "longtable"
    ELSE IF ~analysis.hasLongText THEN "tabular"
    ELSE IF analysis.numCols <= 5 THEN "tabularx"
    ELSE "tabular"

\* longTextColumns.includes(i)
Includes(seq, x) == \E k \in 1..Len(seq) : seq[k] = x

\* parseFloat(x.toFixed(2)) for x = num/den hundredths (den > 0): the nearest
\* hundredth, a tie away from zero.
ToFixed2(num, den) ==
    IF num >= 0 THEN (2 * num + den) \div (2 * den)
    ELSE 0 - ((2 * (0 - num) + den) \div (2 * den))

\* availableWidth = 1.0 - 0.05 - (numCols - 1) * 0.02, in hundredths.
AvailableWidth(numCols) == 100 - 5 - (numCols - 1) * 2

\* The width of one long-text column before the rescaling: the share of the
\* available width, Math.max(width, 0.1), Math.min(width, 0.8), toFixed(2).
ClampedWidth(len, totalLongTextLength, availableWidth) ==
    IF totalLongTextLength = 0 THEN NaN
    ELSE LET num == availableWidth * len
             den == totalLongTextLength
         IN  IF num < 10 * den THEN Num(10)
             ELSE IF num > 80 * den THEN Num(80)
             ELSE Num(ToFixed2(num, den))

\* widths.reduce((sum, w) => sum + w, 0)
SumWidths(widths) ==
    IF \E i \in 1..Len(widths) : widths[i].nan THEN NaN
    ELSE Num(SumSeq([i \in 1..Len(widths) |-> widths[i].v]))

\* The rescaling: every positive width times availableWidth / allocatedWidth,
\* rounded to two decimals, when allocatedWidth > availableWidth.
RescaleWidths(widths, availableWidth) ==
    LET allocatedWidth == SumWidths(widths)
    IN  IF ~allocatedWidth.nan /\ allocatedWidth.v > availableWidth
        THEN SeqOf(Len(widths), LAMBDA i :
                 IF ~widths[i].nan /\ widths[i].v > 0
                 THEN Num(ToFixed2(widths[i].v * availableWidth, allocatedWidth.v))
                 ELSE widths[i])
        ELSE widths

\* The widths after the forEach over the long-text columns.
ClampedWidths(columnMaxLengths, longTextColumns) ==
    LET totalLongTextLength ==
            SumSeq([i \in 1..Len(longTextColumns) |->
                       columnMaxLengths[longTextColumns[i]]])
        availableWidth == AvailableWidth(Len(columnMaxLengths))
    IN  SeqOf(Len(columnMaxLengths), LAMBDA col :
            IF Includes(longTextColumns, col)
            THEN ClampedWidth(columnMaxLengths[col], totalLongTextLength,
                              availableWidth)
            ELSE Num(0))

calculateColumnWidths(columnMaxLengths, longTextColumns) ==
    IF Len(longTextColumns) = 0
    THEN SeqOf(Len(columnMaxLengths), LAMBDA col : Num(0))
    ELSE RescaleWidths(ClampedWidths(columnMaxLengths, longTextColumns),
                       AvailableWidth(Len(columnMaxLengths)))

\* map[alignment] || 'l'
getAlignmentChar(alignment) ==
    CASE alignment = "left" -> "l"
      [] alignment = "center" -> "c"
      [] alignment = "right" -> "r"
      [] OTHER -> "l"

\* map[alignment] || 'p'
getWidthType(alignment) ==
    CASE alignment = "left" -> "p"
      [] alignment = "center" -> "m"
      [] alignment = "right" -> "b"
      [] OTHER -> "p"

\* alignments[i] || 'left'
AlignmentAt(alignments, i) ==
    IF i <= Len(alignments) THEN alignments[i] ELSE "left"

\* specs.join(sep)
Join(ss, sep) ==
    Concat(SeqOf(Len(ss), LAMBDA i : IF i = 1 THEN ss[1] ELSE sep \o ss[i]))

\* The template text ${w} for a positive width of w hundredths below 1: "0.5", "0.47", "0.07".
FormatWidth(w) ==
    <<"0", ".">> \o
    (IF w % 10 = 0 THEN Digits(w \div 10)
     ELSE Digits(w \div 10) \o Digits(w % 10))

\* The column entries of generateTabularxSpec, before the join.
TabularxSpecs(numCols, alignments, longTextColumns) ==
    SeqOf(numCols, LAMBDA i :
        IF Includes(longTextColumns, i) THEN <<"X">>
        ELSE <<getAlignmentChar(AlignmentAt(alignments, i))>>)

generateTabularxSpec(numCols, alignments, longTextColumns) ==
    Join(TabularxSpecs(numCols, alignments, longTextColumns), <<" ">>)

\* TabularSpecs with a box for a long-text column of width zero too.
TabularSpecsZeroBox(numCols, widths, alignments, longTextColumns) ==
    SeqOf(numCols, LAMBDA i :
        IF Includes(longTextColumns, i) /\ ~widths[i].nan /\ widths[i].v >= 0
        THEN <<getWidthType(AlignmentAt(alignments, i)), "{">>
             \o FormatWidth(widths[i].v)
             \o <<"\\", "t", "e", "x", "t", "w", "i", "d", "t", "h", "}">>
        ELSE <<getAlignmentChar(AlignmentAt(alignments, i))>>)

\* The column entries of generateTabularSpec for the widths given.
TabularSpecs(numCols, widths, alignments, longTextColumns) ==
    SeqOf(numCols, LAMBDA i :
        IF Includes(longTextColumns, i) /\ ~widths[i].nan /\ widths[i].v > 0
        THEN <<getWidthType(AlignmentAt(alignments, i)), "{">>
             \o FormatWidth(widths[i].v)
             \o <<"\\", "t", "e", "x", "t", "w", "i", "d", "t", "h", "}">>
        ELSE <<getAlignmentChar(AlignmentAt(alignments, i))>>)

generateTabularSpec(numCols, columnMaxLengths, alignments, longTextColumns) ==
    Join(TabularSpecs(numCols,
                      calculateColumnWidths(columnMaxLengths, longTextColumns),
                      alignments, longTextColumns),
         <<" ">>)

generateColumnSpec(analysis, environment) ==
    IF environment = "tabularx"
    THEN generateTabularxSpec(analysis.numCols, analysis.alignments,
                              analysis.longTextColumns)
    ELSE generateTabularSpec(analysis.numCols, analysis.columnMaxLengths,
                             analysis.alignments, analysis.longTextColumns)

\* The white space String.prototype.trim removes.
WhiteSpace == {" ", "\t", "\n", "\r", "U00A0", "U3000", "UFEFF", "U2028", "U2029"}

\* cell.trim()
Trim(text) ==
    LET keep == {i \in 1..Len(text) : text[i] \notin WhiteSpace}
    IN  IF keep = {} THEN <<>> ELSE SubSeq(text, Min(keep), Max(keep))

\* generateTableContent(rows)
generateTableContent(rows) ==
    SeqOf(Len(rows), LAMBDA r :
        Join(SeqOf(Len(rows[r]), LAMBDA c : Trim(rows[r][c])), <<" ", "&", " ">>))

\* The environment's name as text.
EnvName(environment) ==
    CASE environment = "tabularx" ->
             <<"t", "a", "b", "u", "l", "a", "r", "x">>
      [] environment = "longtable" ->
             <<"l", "o", "n", "g", "t", "a", "b", "l", "e">>
      [] environment = "tabular" ->
             <<"t", "a", "b", "u", "l", "a", "r">>

BeginCmd == <<"\\", "b", "e", "g", "i", "n", "{">>

EndCmd == <<"\\", "e", "n", "d", "{">>

TextwidthArg == <<"{", "\\", "t", "e", "x", "t", "w", "i", "d", "t", "h", "}">>

Toprule == <<"\\", "t", "o", "p", "r", "u", "l", "e">>

Midrule == <<"\\", "m", "i", "d", "r", "u", "l", "e">>

Bottomrule == <<"\\", "b", "o", "t", "t", "o", "m", "r", "u", "l", "e">>

Hline == <<"\\", "h", "l", "i", "n", "e">>

RowEnd == <<" ", "\\", "\\">>

\* The array lines of assembleTable, before lines.join('\n').
AssembleLines(environment, columnSpec, content, config) ==
    LET useBootabs == config.tableStyle = "booktabs"
        begin ==
            IF environment = "tabularx"
            THEN BeginCmd \o EnvName("tabularx") \o <<"}">> \o TextwidthArg
                 \o <<"{">> \o columnSpec \o <<"}">>
            ELSE IF environment = "longtable"
            THEN BeginCmd \o EnvName("longtable") \o <<"}", "{">> \o columnSpec
                 \o <<"}">>
            ELSE BeginCmd \o EnvName("tabular") \o <<"}", "{">> \o columnSpec
                 \o <<"}">>
        header ==
            IF Len(content) > 0
            THEN <<content[1] \o RowEnd, IF useBootabs THEN Midrule ELSE Hline>>
            ELSE <<>>
        body == SeqOf(Len(content) - 1, LAMBDA i : content[i + 1] \o RowEnd)
    IN  <<begin, IF useBootabs THEN Toprule ELSE Hline>>
        \o header \o body
        \o <<IF useBootabs THEN Bottomrule ELSE Hline,
             EndCmd \o EnvName(environment) \o <<"}">> >>

assembleTable(environment, columnSpec, content, config) ==
    Join(AssembleLines(environment, columnSpec, content, config), <<"\n">>)

\* getRequiredPackages without the package of the tabularx environment.
getRequiredPackagesNoTabularx(environment, config) ==
    (IF config.tableStyle = "booktabs" THEN <<"booktabs">> ELSE <<>>)
    \o (IF environment = "longtable" THEN <<"longtable">> ELSE <<>>)

getRequiredPackages(environment, config) ==
    (IF config.tableStyle = "booktabs" THEN <<"booktabs">> ELSE <<>>)
    \o (IF environment = "tabularx" THEN <<"tabularx">>
        ELSE IF environment = "longtable" THEN <<"longtable">>
        ELSE <<>>)

\* The analysis field of the result of an empty table (the field is absent).
NoAnalysis ==
    [numRows |-> 0, numCols |-> 0, columnMaxLengths |-> <<>>,
     hasLongText |-> FALSE, longTextColumns |-> <<>>, alignments |-> <<>>,
     totalContentLength |-> 0]

processTable(rows, alignments, config) ==
    IF Len(rows) = 0
    THEN [latexCode |-> <<>>, environment |-> "tabular", packages |-> <<>>,
          hasAnalysis |-> FALSE, analysis |-> NoAnalysis]
    ELSE Const(analyzeTable(rows, alignments, config),
               LAMBDA analysis :
         Const(selectEnvironment(analysis),
               LAMBDA environment :
         LET columnSpec == generateColumnSpec(analysis, environment)
             tableContent == generateTableContent(rows)
         IN  [latexCode |-> assembleTable(environment, columnSpec,
                                          tableContent, config),
              environment |-> environment,
              packages |-> getRequiredPackages(environment, config),
              hasAnalysis |-> TRUE,
              analysis |-> analysis]))

\* The locals of the processTable call that the result does not carry: the
\* widths calculateColumnWidths returned (generateTabularSpec only) and the
\* column entries before the join.
processTableLocals(rows, alignments, config) ==
    IF Len(rows) = 0 THEN [widths |-> <<>>, specs |-> <<>>]
    ELSE Const(analyzeTable(rows, alignments, config),
               LAMBDA analysis :
         IF selectEnvironment(analysis) = "tabularx"
         THEN [widths |-> <<>>,
               specs |-> TabularxSpecs(analysis.numCols, analysis.alignments,
                                       analysis.longTextColumns)]
         ELSE Const(calculateColumnWidths(analysis.columnMaxLengths,
                                          analysis.longTextColumns),
                    LAMBDA widths :
              [widths |-> widths,
               specs |-> TabularSpecs(analysis.numCols, widths,
                                      analysis.alignments,
                                      analysis.longTextColumns)]))

\* updateConfig(newConfig): { ...this.config, ...newConfig }
updateConfig(config, newConfig) ==
    [k \in DOMAIN config |->
        IF k \in DOMAIN newConfig THEN newConfig[k] ELSE config[k]]

----------------------------------------------------------------------------
(* services/latexRenderer.ts.  A token of markdown-it is a record of the    *)
(* fields the renderer reads; only a token of type inline has children.     *)
(* A handler returns its string together with the packages it added to      *)
(* this.packages and the flags it set in this.flags.  Token indices are     *)
(* counted from 1 here and from 0 in the source.                            *)

Token(type, tag, info, content, style) ==
    [type |-> type, tag |-> tag, info |-> info, content |-> content,
     style |-> style, children |-> <<>>]

Tok(type) == Token(type, <<>>, <<>>, <<>>, <<>>)

Inline(children) == [Tok("inline") EXCEPT !.children = children]

\* A child of an inline token: attr is its href or its src.
Child(type, content, attr) == [type |-> type, content |-> content, attr |-> attr]

\* tokens[i], undefined outside the array.
TokenAt(tokens, i) ==
    IF i >= 1 /\ i <= Len(tokens) THEN tokens[i] ELSE Tok("undefined")

Ret(out, packages, flags) == [out |-> out, packages |-> packages, flags |-> flags]

\* One case of the switch of renderInline.
renderInlineChild(child) ==
    CASE child.type = "text" ->
             Ret(escapeLaTeX(child.content, TRUE), {}, {})
      [] child.type \in {"strong_open", "strong_close", "em_open", "em_close",
                         "link_open", "link_close", "s_open", "s_close"} ->
             Ret(<<>>, {}, {})
      [] child.type = "code_inline" ->
             Ret(<<"\\", "t", "e", "x", "t", "t", "t", "{">>
                     \o escapeLaTeX(child.content, FALSE) \o <<"}">>,
                 {}, {})
      [] child.type = "image" ->
             Ret(<<"\\", "i", "n", "c", "l", "u", "d", "e", "g", "r", "a", "p", "h",
                   "i", "c", "s", "{">> \o child.attr \o <<"}">>,
                 {"graphicx"}, {"hasImages"})
      [] OTHER ->
             Ret(IF child.content # <<>> THEN escapeLaTeX(child.content, TRUE)
                 ELSE <<>>,
                 {}, {})

\* The command an opening child wraps the text token after it in.
WrapCommand(type) ==
    CASE type = "strong_open" -> <<"\\", "t", "e", "x", "t", "b", "f", "{">>
      [] type = "em_open" -> <<"\\", "t", "e", "x", "t", "i", "t", "{">>
      [] type = "s_open" -> <<"\\", "s", "o", "u", "t", "{">>

\* The loop of processInlineFormatting from child i on.
RECURSIVE ProcessInlineFormattingFrom(_, _, _, _)
ProcessInlineFormattingFrom(children, i, result, packages) ==
    IF i > Len(children) THEN Ret(result, packages, {})
    ELSE LET child == children[i]
         IN  IF child.type \in {"strong_open", "em_open", "s_open", "link_open"}
                /\ i + 2 <= Len(children)
             THEN Const(escapeLaTeX(children[i + 1].content, TRUE),
                        LAMBDA text :
                  LET textToken == children[i + 1]
                      replacement ==
                          IF child.type = "link_open"
                          THEN <<"\\", "h", "r", "e", "f", "{">> \o child.attr
                               \o <<"}", "{">>
                               \o escapeLaTeX(textToken.content, FALSE) \o <<"}">>
                          ELSE WrapCommand(child.type) \o text \o <<"}">>
                      added ==
                          CASE child.type = "s_open" -> {"ulem"}
                            [] child.type = "link_open" -> {"hyperref"}
                            [] OTHER -> {}
                  IN  ProcessInlineFormattingFrom(
                          children, i + 3,
                          IF textToken.type = "text"
                          THEN ReplaceFirst(result, text, replacement)
                          ELSE result,
                          packages \cup added))
             ELSE ProcessInlineFormattingFrom(children, i + 1, result, packages)

processInlineFormatting(token, content) ==
    ProcessInlineFormattingFrom(token.children, 1, content, {})

renderInline(token) ==
    IF token.type # "inline" THEN Ret(<<>>, {}, {})
    ELSE Const(SeqOf(Len(token.children),
                     LAMBDA k : renderInlineChild(token.children[k])),
               LAMBDA parts :
         Const(processInlineFormatting(
                   token, Concat(SeqOf(Len(parts), LAMBDA k : parts[k].out))),
               LAMBDA formatted :
         Ret(formatted.out,
             UNION {parts[k].packages : k \in 1..Len(parts)}
                 \cup formatted.packages,
             UNION {parts[k].flags : k \in 1..Len(parts)})))

\* The array commands without its last entry.
HeadingCommandsShort == <<
    <<"s", "e", "c", "t", "i", "o", "n">>,
    <<"s", "u", "b", "s", "e", "c", "t", "i", "o", "n">>,
    <<"s", "u", "b", "s", "u", "b", "s", "e", "c", "t", "i", "o", "n">>,
    <<"p", "a", "r", "a", "g", "r", "a", "p", "h">> >>

\* The array commands of renderHeading.
HeadingCommands == <<
    <<"s", "e", "c", "t", "i", "o", "n">>,
    <<"s", "u", "b", "s", "e", "c", "t", "i", "o", "n">>,
    <<"s", "u", "b", "s", "u", "b", "s", "e", "c", "t", "i", "o", "n">>,
    <<"p", "a", "r", "a", "g", "r", "a", "p", "h">>,
    <<"s", "u", "b", "p", "a", "r", "a", "g", "r", "a", "p", "h">> >>

\* parseInt(tag.substring(1)) for the tag of a heading, h and one digit.
HeadingLevel(tag) ==
    CHOOSE n \in 0..9 : Digits(n) = SubSeq(tag, 2, 2)

renderHeading(tokens, index) ==
    LET level == HeadingLevel(tokens[index].tag)
        command == HeadingCommands[IF level - 1 < Len(HeadingCommands) - 1
                                   THEN level ELSE Len(HeadingCommands)]
    IN  Const(renderInline(TokenAt(tokens, index + 1)),
              LAMBDA content :
        Ret(<<"\\">> \o command \o <<"{">> \o content.out \o <<"}">>,
            content.packages, content.flags))

renderParagraph(tokens, index) == renderInline(TokenAt(tokens, index + 1))

renderCodeBlock(token) ==
    Ret(<<"\\", "b", "e", "g", "i", "n", "{", "l", "s", "t", "l", "i", "s", "t",
          "i", "n", "g", "}">>
        \o (IF token.info # <<>>
            THEN <<"[", "l", "a", "n", "g", "u", "a", "g", "e", "=">>
                 \o token.info \o <<"]">>
            ELSE <<>>)
        \o <<"\n">> \o token.content
        \o <<"\\", "e", "n", "d", "{", "l", "s", "t", "l", "i", "s", "t", "i", "n",
             "g", "}">>,
        {"listings", "xcolor"}, {"hasCode"})

\* type.includes('list_open'), type.includes('list_close')
IsListOpen(type) == type \in {"bullet_list_open", "ordered_list_open"}

IsListClose(type) == type \in {"bullet_list_close", "ordered_list_close"}

\* The loop of renderListItem that skips a nested list: the index after it.
RECURSIVE SkipNestedList(_, _, _)
SkipNestedList(tokens, i, depth) ==
    IF i > Len(tokens) \/ depth <= 0 THEN i
    ELSE SkipNestedList(tokens, i + 1,
                        depth + (IF IsListOpen(tokens[i].type) THEN 1 ELSE 0)
                              - (IF IsListClose(tokens[i].type) THEN 1 ELSE 0))

RECURSIVE renderList(_, _)
RECURSIVE RenderListFrom(_, _, _, _)
RECURSIVE renderListItem(_, _)
RECURSIVE RenderListItemFrom(_, _, _)

\* The loop of renderListItem from token i on; acc.out is the array content.
RenderListItemFrom(tokens, i, acc) ==
    IF i > Len(tokens) \/ tokens[i].type = "list_item_close" THEN acc
    ELSE IF tokens[i].type = "paragraph_open"
    THEN Const(renderParagraph(tokens, i),
               LAMBDA para :
         RenderListItemFrom(tokens, i + 3,
             Ret(Append(acc.out, para.out), acc.packages \cup para.packages,
                 acc.flags \cup para.flags)))
    ELSE IF IsListOpen(tokens[i].type)
    THEN Const(renderList(tokens, i),
               LAMBDA nestedList :
         RenderListItemFrom(tokens, SkipNestedList(tokens, i + 1, 1),
             Ret(Append(acc.out, nestedList.out),
                 acc.packages \cup nestedList.packages,
                 acc.flags \cup nestedList.flags)))
    ELSE RenderListItemFrom(tokens, i + 1, acc)

renderListItem(tokens, startIndex) ==
    Const(RenderListItemFrom(tokens, startIndex + 1, Ret(<<>>, {}, {})),
          LAMBDA content :
    Ret(Join(content.out, <<" ">>), content.packages, content.flags))

\* The loop of renderList from token i on; acc.out is the array lines.
RenderListFrom(tokens, i, closeType, acc) ==
    IF i > Len(tokens) \/ tokens[i].type = closeType THEN acc
    ELSE IF tokens[i].type = "list_item_open"
    THEN Const(renderListItem(tokens, i),
               LAMBDA itemContent :
         RenderListFrom(tokens, i + 1, closeType,
             Ret(Append(acc.out,
                        <<"\\", "i", "t", "e", "m", " ">> \o itemContent.out),
                 acc.packages \cup itemContent.packages,
                 acc.flags \cup itemContent.flags)))
    ELSE RenderListFrom(tokens, i + 1, closeType, acc)

\* renderList with \end{itemize} at the end of either list.
renderListEndItemize(tokens, startIndex) ==
    LET isOrdered == tokens[startIndex].type = "ordered_list_open"
        environment == IF isOrdered
                       THEN <<"e", "n", "u", "m", "e", "r", "a", "t", "e">>
                       ELSE <<"i", "t", "e", "m", "i", "z", "e">>
    IN  Const(RenderListFrom(
                  tokens, startIndex + 1,
                  IF isOrdered THEN "ordered_list_close" ELSE "bullet_list_close",
                  Ret(<<BeginCmd \o environment \o <<"}">> >>, {}, {})),
              LAMBDA lines :
        Ret(Join(Append(lines.out, EndCmd \o <<"i", "t", "e", "m", "i", "z", "e", "}">>),
                 <<"\n">>),
            lines.packages, lines.flags))

renderList(tokens, startIndex) ==
    LET isOrdered == tokens[startIndex].type = "ordered_list_open"
        environment == IF isOrdered
                       THEN <<"e", "n", "u", "m", "e", "r", "a", "t", "e">>
                       ELSE <<"i", "t", "e", "m", "i", "z", "e">>
    IN  Const(RenderListFrom(
                  tokens, startIndex + 1,
                  IF isOrdered THEN "ordered_list_close" ELSE "bullet_list_close",
                  Ret(<<BeginCmd \o environment \o <<"}">> >>, {}, {})),
              LAMBDA lines :
        Ret(Join(Append(lines.out, EndCmd \o environment \o <<"}">>), <<"\n">>),
            lines.packages, lines.flags))

\* style.includes(...) of extractTableData: the alignment of a header cell.
StyleAlignment(style) ==
    IF IndexOf(style, <<"t", "e", "x", "t", "-", "a", "l", "i", "g", "n", ":",
                        "c", "e", "n", "t", "e", "r">>) > 0 THEN "center"
    ELSE IF IndexOf(style, <<"t", "e", "x", "t", "-", "a", "l", "i", "g", "n", ":",
                             "r", "i", "g", "h", "t">>) > 0 THEN "right"
    ELSE "left"

\* One pass of the while loop of extractTableData, at token i: st.i is the
\* loop's index, st.done holds once its condition failed.  The pass leaves
\* st alone when the loop has ended or its index has skipped token i.
ExtractTableDataStep(tokens, i, st) ==
    LET token == tokens[i]
    IN  IF st.done \/ st.i # i THEN st
        ELSE IF token.type = "table_close" THEN [st EXCEPT !.done = TRUE]
        ELSE IF token.type \in {"thead_open", "tbody_open"}
        THEN [st EXCEPT !.i = i + 1]
        ELSE IF token.type \in {"thead_close", "tbody_close"}
        THEN [st EXCEPT !.i = i + 1, !.isHeader = FALSE]
        ELSE IF token.type = "tr_open"
        THEN [st EXCEPT !.i = i + 1, !.currentRow = <<>>]
        ELSE IF token.type = "tr_close"
        THEN [st EXCEPT !.i = i + 1,
                        !.rows = IF Len(st.currentRow) > 0
                                 THEN Append(@, st.currentRow) ELSE @]
        ELSE IF token.type \in {"th_open", "td_open"}
        THEN Const(renderInline(TokenAt(tokens, i + 1)),
                   LAMBDA cellContent :
             [st EXCEPT
                 !.i = i + 2,
                 !.alignments =
                     IF st.isHeader /\ token.type = "th_open"
                     THEN Append(@, StyleAlignment(token.style))
                     ELSE @,
                 !.currentRow = Append(@, cellContent.out),
                 !.packages = @ \cup cellContent.packages,
                 !.flags = @ \cup cellContent.flags])
        ELSE [st EXCEPT !.i = i + 1]

\* The passes of the while loop at the tokens lo..hi, in order.
RECURSIVE ExtractTableDataLoop(_, _, _, _)
ExtractTableDataLoop(tokens, lo, hi, st) ==
    IF lo > hi THEN st
    ELSE IF lo = hi THEN ExtractTableDataStep(tokens, lo, st)
    ELSE LET mid == (lo + hi) \div 2
             left == ExtractTableDataLoop(tokens, lo, mid, st)
         IN  IF left.done THEN left
             ELSE ExtractTableDataLoop(tokens, mid + 1, hi, left)

extractTableData(tokens, startIndex) ==
    ExtractTableDataLoop(tokens, startIndex + 1, Len(tokens),
                         [i |-> startIndex + 1, done |-> FALSE,
                          rows |-> <<>>, alignments |-> <<>>, currentRow |-> <<>>,
                          isHeader |-> TRUE, packages |-> {}, flags |-> {}])

\* renderTable without the forEach that adds result.packages.
renderTableNoPackages(tokens, startIndex, config) ==
    Const(extractTableData(tokens, startIndex),
          LAMBDA tableData :
    Const(processTable(tableData.rows, tableData.alignments, config),
          LAMBDA result :
    Ret(result.latexCode, tableData.packages,
        tableData.flags \cup {"hasTables"})))

renderTable(tokens, startIndex, config) ==
    Const(extractTableData(tokens, startIndex),
          LAMBDA tableData :
    Const(processTable(tableData.rows, tableData.alignments, config),
          LAMBDA result :
    Ret(result.latexCode,
        tableData.packages
            \cup {result.packages[k] : k \in 1..Len(result.packages)},
        tableData.flags \cup {"hasTables"})))

RECURSIVE renderToken(_, _, _)
RECURSIVE renderBlockquote(_, _, _)
RECURSIVE RenderBlockquoteFrom(_, _, _, _)

\* The loop of renderBlockquote from token i on; acc.out is the array lines.
RenderBlockquoteFrom(tokens, i, config, acc) ==
    IF i > Len(tokens) \/ tokens[i].type = "blockquote_close" THEN acc
    ELSE Const(renderToken(tokens, i, config),
               LAMBDA rendered :
         RenderBlockquoteFrom(tokens, i + 1, config,
             Ret(IF rendered.out # <<>> THEN Append(acc.out, rendered.out)
                 ELSE acc.out,
                 acc.packages \cup rendered.packages,
                 acc.flags \cup rendered.flags)))

renderBlockquote(tokens, startIndex, config) ==
    Const(RenderBlockquoteFrom(
              tokens, startIndex + 1, config,
              Ret(<<BeginCmd \o <<"q", "u", "o", "t", "e", "}">> >>, {}, {})),
          LAMBDA lines :
    Ret(Join(Append(lines.out, EndCmd \o <<"q", "u", "o", "t", "e", "}">>),
             <<"\n">>),
        lines.packages, lines.flags))

\* A default case that returns the content of the token.
RenderDefaultContent(token) == Ret(token.content, {}, {})

\* The default case of renderToken.
RenderDefault(token) == Ret(<<>>, {}, {})

\* renderToken(tokens[index], tokens, index)
renderToken(tokens, index, config) ==
    LET token == tokens[index]
    IN  CASE token.type = "heading_open" -> renderHeading(tokens, index)
          [] token.type = "paragraph_open" -> renderParagraph(tokens, index)
          [] IsListOpen(token.type) -> renderList(tokens, index)
          [] token.type = "blockquote_open" ->
                 renderBlockquote(tokens, index, config)
          [] token.type \in {"fence", "code_block"} -> renderCodeBlock(token)
          [] token.type = "table_open" -> renderTable(tokens, index, config)
          [] token.type = "hr" -> Ret(<<"\\", "h", "r", "u", "l", "e">>, {}, {})
          [] OTHER -> RenderDefault(token)

renderTokens(tokens, config) ==
    Const(SeqOf(Len(tokens), LAMBDA i : renderToken(tokens, i, config)),
          LAMBDA rendered :
    LET result == SelectSeq(SeqOf(Len(rendered), LAMBDA i : rendered[i].out),
                            LAMBDA out : out # <<>>)
    IN  Ret(Join(result, <<"\n", "\n">>),
            UNION {rendered[i].packages : i \in 1..Len(rendered)},
            UNION {rendered[i].flags : i \in 1..Len(rendered)}))

\* The flags of the constructor and of the reset of render.
NoFlags ==
    [hasChinese |-> FALSE, hasImages |-> FALSE, hasTables |-> FALSE,
     hasCode |-> FALSE, hasMath |-> FALSE]

\* The renderer the constructor builds.
LatexRenderer(tableConfig) ==
    [config |-> tableConfig, packages |-> {}, flags |-> NoFlags]

\* render without the reset of packages and flags.
renderNoReset(doc, packages, flags, config) ==
    LET detected == [flags EXCEPT !.hasChinese = @ \/ hasChinese(doc.markdown)]
    IN  Const(renderTokens(doc.tokens, config),
              LAMBDA content :
        [content |-> content.out,
         packages |-> packages \cup content.packages,
         flags |-> [f \in DOMAIN detected |-> detected[f] \/ f \in content.flags]])

\* render(markdown) of a renderer whose fields are packages and flags and
\* whose table processor holds config; doc is the markdown text with the
\* tokens md.parse gives for it.  The result holds this.packages and the
\* flags at the return.
render(doc, packages, flags, config) ==
    LET cleared == {}
        reset == NoFlags
        detected == [reset EXCEPT !.hasChinese = hasChinese(doc.markdown)]
    IN  Const(renderTokens(doc.tokens, config),
              LAMBDA content :
        [content |-> content.out,
         packages |-> cleared \cup content.packages,
         flags |-> [f \in DOMAIN detected |-> detected[f] \/ f \in content.flags]])

----------------------------------------------------------------------------
(* documentGenerator.ts.  In this component a string is modelled as the    *)
(* sequence of its lines: the strings pushed to an array that is joined    *)
(* with '\n' are the lines of the joined string, and the join of strings   *)
(* is the concatenation of their lines.                                    *)

\* generateDocumentClass(config)
generateDocumentClass(config) ==
    LET options == config.fontSize \o "," \o config.pageSize
    IN  <<"\\documentclass[" \o options \o "]{" \o config.documentClass \o "}">>

\* The font lines of the Chinese block.
CJKFontLines(forExport) ==
    IF forExport
    THEN <<"% U4F7FU7528 Overleaf U7CFBU7EDFU5B57U4F53,U5982U679CU7F16U8BD1U5931U8D25U8BF7U6539U4E3AU5176U4ED6U4E2DU6587U5B57U4F53",
           "% U53EFU9009U5B57U4F53: Noto Sans CJK SC, Source Han Sans SC, SimSun, FandolSong",
           "\\setCJKmainfont{Noto Sans CJK SC}",
           "\\setCJKsansfont{Noto Sans CJK SC}",
           "\\setCJKmonofont{Noto Sans CJK SC}">>
    ELSE <<"\\setCJKmainfont[Path=/fonts/]{NotoSansCJKsc-Regular.otf}",
           "\\setCJKsansfont[Path=/fonts/]{NotoSansCJKsc-Regular.otf}",
           "\\setCJKmonofont[Path=/fonts/]{NotoSansCJKsc-Regular.otf}">>

HypersetupLines ==
    <<"\\hypersetup{", "    colorlinks=true,", "    linkcolor=blue,",
      "    urlcolor=blue,", "    citecolor=blue", "}">>

LstsetLines ==
    <<"\\lstset{", "    basicstyle=\\ttfamily\\small,", "    breaklines=true,",
      "    frame=single,", "    numbers=left,", "    numberstyle=\\tiny,",
      "    backgroundcolor=\\color{gray!10},", "    keywordstyle=\\color{blue},",
      "    commentstyle=\\color{green!50!black},", "    stringstyle=\\color{red}",
      "}">>

\* The table block of generatePackages.
TablePackageLines(result) ==
    (IF "booktabs" \in result.packages THEN <<"\\usepackage{booktabs}">> ELSE <<>>)
    \o (IF "tabularx" \in result.packages THEN <<"\\usepackage{tabularx}">> ELSE <<>>)
    \o (IF "longtable" \in result.packages THEN <<"\\usepackage{longtable}">> ELSE <<>>)
    \o <<"\\usepackage{array}">>

\* The table block put under the package set alone.
TablePackageLinesUnguarded(result) ==
    IF result.packages \cap {"booktabs", "tabularx", "longtable"} # {}
    THEN TablePackageLines(result) ELSE <<>>

\* The table block under result.hasTables.
TableBlock(result) ==
    IF result.flags.hasTables THEN TablePackageLines(result) ELSE <<>>

\* generatePackages(result, config, forExport)
generatePackages(result, config, forExport) ==
    <<"\\usepackage{geometry}">>
    \o (IF config.enableChinese \/ result.flags.hasChinese
        THEN <<"\\usepackage{fontspec}", "\\usepackage{xeCJK}">>
             \o CJKFontLines(forExport)
        ELSE <<>>)
    \o (IF result.flags.hasImages THEN <<"\\usepackage{graphicx}">> ELSE <<>>)
    \o (IF "hyperref" \in result.packages
        THEN <<"\\usepackage{hyperref}">> \o HypersetupLines ELSE <<>>)
    \o (IF result.flags.hasMath
        THEN <<"\\usepackage{amsmath}", "\\usepackage{amssymb}">> ELSE <<>>)
    \o TableBlock(result)
    \o (IF result.flags.hasCode
        THEN <<"\\usepackage{listings}", "\\usepackage{xcolor}">> \o LstsetLines
        ELSE <<>>)
    \o (IF "ulem" \in result.packages
        THEN <<"\\usepackage[normalem]{ulem}">> ELSE <<>>)
    \o <<"\\usepackage{enumitem}", "\\usepackage{float}">>

\* generateDocumentConfig(result, config)
generateDocumentConfig(result, config) ==
    <<"% U9875U9762U5E03U5C40U8BBEU7F6E",
      "\\geometry{", "    left=2.5cm,", "    right=2.5cm,", "    top=2.5cm,",
      "    bottom=2.5cm", "}",
      "",
      "% U6BB5U843DU8BBEU7F6E",
      "\\setlength{\\parindent}{0pt}",
      "\\setlength{\\parskip}{0.5em}">>

\* The table of contents put in whatever enableTOC is.
TocLinesAlways(config) == <<"\\tableofcontents", "\\newpage", "">>

\* The table of contents of generate.
TocLines(config) ==
    IF config.enableTOC THEN <<"\\tableofcontents", "\\newpage", "">> ELSE <<>>

\* generate(renderResult, config, forExport)
generate(renderResult, config, forExport) ==
    generateDocumentClass(config)
    \o <<"">>
    \o generatePackages(renderResult, config, forExport)
    \o <<"">>
    \o generateDocumentConfig(renderResult, config)
    \o <<"">>
    \o <<"\\begin{document}">>
    \o <<"">>
    \o TocLines(config)
    \o renderResult.content
    \o <<"">>
    \o <<"\\end{document}">>

----------------------------------------------------------------------------
(* The idle values of each component's variables. *)

\* The default configuration of the application store.
DefaultTableConfig == [tableStyle |-> "booktabs", autoWrapThreshold |-> 20]

NoResult == processTable(<<>>, <<>>, DefaultTableConfig)

NoLocals == processTableLocals(<<>>, <<>>, DefaultTableConfig)

EscIdle ==
    /\ escText = <<>>
    /\ escPreserveMath = FALSE
    /\ escResult = <<>>
    /\ escWidth = 0
    /\ escPc = "idle"

TblIdle ==
    /\ tblConfig = DefaultTableConfig
    /\ tblRows = <<>>
    /\ tblAlignments = <<>>
    /\ tblResult = NoResult
    /\ tblLocals = NoLocals
    /\ tblPc = "idle"

\* The result of a renderer that rendered nothing yet.
NoRenderResult == [content |-> <<>>, packages |-> {}, flags |-> NoFlags]

RndIdle ==
    /\ rndConfig = DefaultTableConfig
    /\ rndPackages = {}
    /\ rndFlags = NoFlags
    /\ rndCalls = <<>>
    /\ rndCallConfig = DefaultTableConfig
    /\ rndResult = NoRenderResult

\* The render result and the document configuration before generate is
\* called.
DefaultDocumentConfig ==
    [documentClass |-> "article", fontSize |-> "11pt", pageSize |-> "a4paper",
     enableChinese |-> TRUE, enableTOC |-> FALSE]

GenIdle ==
    /\ genResult = [NoRenderResult EXCEPT !.content = <<"">>]
    /\ genConfig = DefaultDocumentConfig
    /\ genForExport = FALSE
    /\ genOutput = <<>>
    /\ genPc = "idle"

MaxCallers == 2

\* The callers whose calls of one service overlap.
Callers == 1..MaxCallers

\* No call of initialize yet, no engine instance.
IniIdle ==
    /\ iniPc = [c \in Callers |-> "idle"]
    /\ iniInstances = 0
    /\ iniHeld = 0
    /\ iniClosed = {}

\* The fields of a FrontendPdfService after construction, on a page that
\* loaded no PDFTeX script.
FpsIdle ==
    /\ fpsPDFTeX = FALSE
    /\ fpsIsLoading = FALSE
    /\ fpsPc = [c \in Callers |-> "idle"]

StrIdle ==
    /\ strTokens = <<>>
    /\ strContent = <<>>
    /\ strPc = "idle"

\* No caller holds a render result.
HldIdle == hldResults = <<>>

\* The field notification of the store as created.
NoNotification == [show |-> FALSE, message |-> "", type |-> "info"]

NtfIdle ==
    /\ ntfNotification = NoNotification
    /\ ntfTimers = {}
    /\ ntfCalls = 0

\* No promise of compile yet.
NoOutcome == [kind |-> "none", success |-> FALSE, pdf |-> FALSE, error |-> ""]

\* No result of engine.compileLaTeX() yet.
NoLatexResult == [status |-> 0, pdf |-> FALSE]

\* The engine holds no file main.tex.
NoFile == <<>>

\* The fields of a SwiftLaTeXService after construction, on a page that
\* loaded no engine script.
CmpIdle ==
    /\ cmpWindow = {}
    /\ cmpEngine = "null"
    /\ cmpDvipdfmEngine = FALSE
    /\ cmpEngineStatus = "unloaded"
    /\ cmpIsLoading = FALSE
    /\ cmpFontStatus = "undefined"
    /\ cmpHasChinese = FALSE
    /\ cmpLatexResult = NoLatexResult
    /\ cmpPc = "idle"
    /\ cmpOutcome = NoOutcome
    /\ cmpCalls = 0
    /\ cmpLatexContent = <<>>
    /\ cmpMainTex = NoFile
    /\ cmpProgress = <<>>

----------------------------------------------------------------------------
(* The escaper's specification: escapeLaTeX is called once on a text drawn  *)
(* from the bounded inputs.                                                *)

ShortLen == 2

MathLen == 5

\* The ten special characters and one ordinary character.
EscAlphabet == SpecialChars \cup {"a"}

\* The characters the math scan and the restore step are sensitive to.
MathAlphabet == {"$", "a", "_", "\\"}

PriceText == <<"p", "r", "i", "c", "e", " ", "$", "5", " ", "$", "x", "^", "2",
               "$", " ", "d", "o", "n", "e">>

AbText == <<"a", "_", "b", " ", "$", "x", "^", "2", "$", " ", "c", "_", "d">>

\* A text that holds a string of the placeholder's form before a math span.
CollisionText ==
    <<"U00A7", "U00A7", "M", "A", "T", "H", "0", "U00A7", "U00A7", " ",
      "$", "x", "$">>

SampleTexts == {PriceText, AbText, CollisionText}

\* A letter, ideographs from the first to the last of U+4E00..U+9FA5, and
\* the characters next to the range: U+9FA6 and the hiragana U+3042.
WidthAlphabet == {"a", "b", "U4E00", "U4E2D", "U9FA5", "U9FA6", "U3042"}

EscTexts ==
    SeqsUpTo(EscAlphabet, ShortLen) \cup SeqsUpTo(MathAlphabet, MathLen)
        \cup SampleTexts \cup SeqsUpTo(WidthAlphabet, ShortLen)

EscInit ==
    /\ FpsIdle
    /\ IniIdle
    /\ StrIdle
    /\ HldIdle
    /\ NtfIdle
    /\ TblIdle
    /\ RndIdle
    /\ GenIdle
    /\ CmpIdle
    /\ escText \in EscTexts
    /\ escPreserveMath \in BOOLEAN
    /\ escResult = <<>>
    /\ escWidth = 0
    /\ escPc = "call"

EscapeLaTeX ==
    /\ escPc = "call"
    /\ escResult' = escapeLaTeX(escText, escPreserveMath)
    /\ escPc' = "done"
    /\ UNCHANGED <<escText, escPreserveMath, escWidth,
                   tblVars, rndVars, genVars, cmpVars, ntfVars, hldVars, strVars, iniVars, fpsVars>>

\* getTextWidth(text)
GetTextWidth ==
    /\ escPc = "call"
    /\ escWidth' = getTextWidth(escText)
    /\ escPc' = "width"
    /\ UNCHANGED <<escText, escPreserveMath, escResult,
                   tblVars, rndVars, genVars, cmpVars, ntfVars, hldVars, strVars, iniVars, fpsVars>>

EscNext == EscapeLaTeX \/ GetTextWidth

EscSpec == EscInit /\ [][EscNext]_vars

----------------------------------------------------------------------------
(* The table processor's specification: processTable is called on a table   *)
(* drawn from the bounded inputs, and updateConfig changes the              *)
(* configuration between two calls.                                         *)

MaxCols == 6

TableStyles == {"booktabs", "standard"}

\* A tableStyle outside the enumeration (a caller whose value was not type
\* checked).
OtherTableStyle == "grid"

Thresholds == {2, 5}

CellHeader == <<"h">>

\* Display widths 1, 3 and 9 (the last one 13 code units long).
CellShort == <<"a">>

CellMid == <<"U4E2D", "a">>

CellLong == <<"*", "*", "U4E2D", "U6587", "U6D4B", "U8BD5", "a", "*", "*">>

ColumnCells == {CellShort, CellMid, CellLong}

\* A table of numRows rows: a header row and equal body rows.
MakeRows(numRows, body) ==
    SeqOf(numRows, LAMBDA r :
        IF r = 1 THEN SeqOf(Len(body), LAMBDA c : CellHeader) ELSE body)

\* Every table of 5 rows and at most MaxCols columns over ColumnCells.
EnumTables ==
    {MakeRows(5, body) : body \in UNION {[1..k -> ColumnCells] : k \in 1..MaxCols}}

\* Bodies of k columns: one cell everywhere, or a first column that differs.
PlainBodies(k) ==
    {[c \in 1..k |-> cell] : cell \in ColumnCells}
    \cup {[c \in 1..k |-> IF c = 1 THEN CellLong ELSE CellShort],
          [c \in 1..k |-> IF c = 1 THEN CellLong ELSE CellMid]}

\* Tables around the 30-row limit of selectEnvironment.
TallTables ==
    {MakeRows(n, body) :
        n \in {30, 31},
        body \in UNION {[1..k -> ColumnCells] : k \in 1..3} \cup PlainBodies(6)}

\* Tables around the column count at which the available width reaches 0.
WideTables ==
    {MakeRows(2, body) : body \in UNION {PlainBodies(k) : k \in {48, 49, 50}}}

\* The table of the end-to-end scenario.
ScenarioRows == <<
    << <<"U7279", "U6027">>, <<"U8BF4", "U660E">> >>,
    << <<"F", "a", "s", "t">>,
       <<"A", " ", "s", "h", "o", "r", "t", " ", "n", "o", "t", "e">> >>,
    << <<"U4E2D", "U6587", "U6D4B", "U8BD5">>,
       <<"U4E00", "U4E2A", "U5F88", "U957F", "U7684", "U4E2D", "U6587", "U8BF4",
         "U660E", "U6587", "U672C", "U7528", "U4E8E", "U89E6", "U53D1", "U81EA",
         "U52A8", "U6362", "U884C", "U5904", "U7406">> >> >>

\* Tables of empty cells, and the table without rows.
EmptyCellTables == {[r \in 1..2 |-> [c \in 1..k |-> <<>>]] : k \in {1, 6}}

\* Tables whose rows differ in length: the first row has 2 cells, a later row
\* fewer, another one more.
RaggedTables ==
    {<< <<CellHeader, CellHeader>>, <<cell>>, <<CellShort, CellMid, CellLong>> >> :
        cell \in ColumnCells}

\* left, center, right, left, ... for n columns.
CycleAlignments(n) ==
    SeqOf(n, LAMBDA c : <<"left", "center", "right">>[((c - 1) % 3) + 1])

\* The alignments arguments tried with rows: none, one for each column, and
\* for a table of two columns one alignment fewer and one more.
AlignmentsFor(rows) ==
    IF Len(rows) = 0 THEN {<<>>}
    ELSE {<<>>, CycleAlignments(Len(rows[1]))}
         \cup (IF Len(rows[1]) = 2
               THEN {CycleAlignments(1), CycleAlignments(3)} ELSE {})

Configs == [tableStyle : TableStyles, autoWrapThreshold : Thresholds]

\* x.toFixed(2) sits on a tie for x = num/den: there the binary
\* representation of the double decides the direction.
IsTie(num, den) ==
    LET a == IF num >= 0 THEN num ELSE 0 - num
    IN  (2 * a) % (2 * den) = den

\* calculateColumnWidths rounds a width that sits on a tie.
HasRoundingTie(columnMaxLengths, longTextColumns) ==
    LET availableWidth == AvailableWidth(Len(columnMaxLengths))
        total == SumSeq([i \in 1..Len(longTextColumns) |->
                            columnMaxLengths[longTextColumns[i]]])
        clamped == ClampedWidths(columnMaxLengths, longTextColumns)
        allocated == SumWidths(clamped)
    IN  /\ total # 0
        /\ \/ \E i \in 1..Len(longTextColumns) :
                 LET num == availableWidth * columnMaxLengths[longTextColumns[i]]
                 IN  num >= 10 * total /\ num <= 80 * total /\ IsTie(num, total)
           \/ /\ allocated.v > availableWidth
              /\ \E col \in 1..Len(clamped) :
                     /\ clamped[col].v > 0
                     /\ IsTie(clamped[col].v * availableWidth, allocated.v)

\* The widths of the table are decided by the arithmetic alone.
TieFree(rows, config) ==
    IF Len(rows) = 0 THEN TRUE
    ELSE Const(analyzeTable(rows, <<>>, config),
               LAMBDA analysis :
         IF selectEnvironment(analysis) = "tabularx" THEN TRUE
         ELSE ~HasRoundingTie(analysis.columnMaxLengths,
                              analysis.longTextColumns))

TblInit ==
    /\ FpsIdle
    /\ IniIdle
    /\ StrIdle
    /\ HldIdle
    /\ NtfIdle
    /\ EscIdle
    /\ RndIdle
    /\ GenIdle
    /\ CmpIdle
    /\ \/ /\ tblRows \in EnumTables \cup TallTables \cup WideTables
                         \cup RaggedTables \cup {<<>>}
          /\ tblConfig \in Configs
       \/ /\ tblRows = ScenarioRows
          /\ tblConfig \in [tableStyle : TableStyles, autoWrapThreshold : {20}]
       \/ /\ tblRows \in EmptyCellTables
          /\ tblConfig \in [tableStyle : TableStyles, autoWrapThreshold : {0}]
       \/ /\ tblRows \in RaggedTables \cup {ScenarioRows}
          /\ tblConfig = [tableStyle |-> OtherTableStyle, autoWrapThreshold |-> 20]
    /\ tblAlignments \in AlignmentsFor(tblRows)
    /\ tblResult = NoResult
    /\ tblLocals = NoLocals
    /\ tblPc = "call"

\* processTable(rows, alignments), followed where no width sits on a
\* rounding tie.
ProcessTable ==
    /\ tblPc = "call"
    /\ TieFree(tblRows, tblConfig)
    /\ tblResult' = processTable(tblRows, tblAlignments, tblConfig)
    /\ tblLocals' = processTableLocals(tblRows, tblAlignments, tblConfig)
    /\ tblPc' = "done"
    /\ UNCHANGED <<tblConfig, tblRows, tblAlignments, escVars, rndVars,
                   genVars, cmpVars, ntfVars, hldVars, strVars, iniVars, fpsVars>>

\* The arguments of updateConfig the model draws.
ConfigUpdates ==
    [tableStyle : TableStyles] \cup [autoWrapThreshold : Thresholds] \cup Configs

\* updateConfig(newConfig), before a call of processTable or after it.
UpdateConfig ==
    /\ tblPc \in {"call", "done"}
    /\ \E newConfig \in ConfigUpdates :
          tblConfig' = updateConfig(tblConfig, newConfig)
    /\ tblResult' = NoResult
    /\ tblLocals' = NoLocals
    /\ tblPc' = "call"
    /\ UNCHANGED <<tblRows, tblAlignments, escVars, rndVars, genVars, cmpVars, ntfVars, hldVars, strVars, iniVars, fpsVars>>

TblNext == ProcessTable \/ UpdateConfig

TblSpec == TblInit /\ [][TblNext]_vars

----------------------------------------------------------------------------
(* The renderer's specification: a renderer is constructed, render is       *)
(* called on documents drawn from Docs, and updateTableConfig changes the   *)
(* table configuration between the calls.  The tables of Docs have at most  *)
(* 5 columns and 30 rows, so that no column width is computed for them.     *)

MaxRenders == 2

\* The document empty and the tokens markdown-it parses it to.
DocEmpty ==
    [markdown |-> <<>>,
     tokens |-> <<>>]

\* The document heading and the tokens markdown-it parses it to.
DocHeading ==
    [markdown |-> <<"#", " ", "H", "i">>,
     tokens |-> <<
        Token("heading_open", <<"h", "1">>, <<>>, <<>>, <<>>),
        Inline(<<Child("text", <<"H", "i">>, <<>>)>>),
        Token("heading_close", <<"h", "1">>, <<>>, <<>>, <<>>) >>]

\* The document para and the tokens markdown-it parses it to.
DocPara ==
    [markdown |-> <<"a", "_", "b">>,
     tokens |-> <<
        Token("paragraph_open", <<"p">>, <<>>, <<>>, <<>>),
        Inline(<<Child("text", <<"a", "_", "b">>, <<>>)>>),
        Token("paragraph_close", <<"p">>, <<>>, <<>>, <<>>) >>]

\* The document math and the tokens markdown-it parses it to.
DocMath ==
    [markdown |-> <<"$", "x", "$">>,
     tokens |-> <<
        Token("paragraph_open", <<"p">>, <<>>, <<>>, <<>>),
        Inline(<<Child("text", <<"$", "x", "$">>, <<>>)>>),
        Token("paragraph_close", <<"p">>, <<>>, <<>>, <<>>) >>]

\* The document chinese and the tokens markdown-it parses it to.
DocChinese ==
    [markdown |-> <<"U4E2D">>,
     tokens |-> <<
        Token("paragraph_open", <<"p">>, <<>>, <<>>, <<>>),
        Inline(<<Child("text", <<"U4E2D">>, <<>>)>>),
        Token("paragraph_close", <<"p">>, <<>>, <<>>, <<>>) >>]

\* The document fence and the tokens markdown-it parses it to.
DocFence ==
    [markdown |-> <<"U0060", "U0060", "U0060", "j", "s", "\n", "x", "\n", "U0060",
        "U0060", "U0060">>,
     tokens |-> <<
        Token("fence", <<"c", "o", "d", "e">>, <<"j", "s">>, <<"x",
            "\n">>, <<>>) >>]

\* The document indented and the tokens markdown-it parses it to.
DocIndented ==
    [markdown |-> <<" ", " ", " ", " ", "x">>,
     tokens |-> <<
        Token("code_block", <<"c", "o", "d", "e">>, <<>>, <<"x", "\n">>,
            <<>>) >>]

\* The document image and the tokens markdown-it parses it to.
DocImage ==
    [markdown |-> <<"!", "[", "a", "]", "(", "i", ".", "p", "n", "g", ")">>,
     tokens |-> <<
        Token("paragraph_open", <<"p">>, <<>>, <<>>, <<>>),
        Inline(<<Child("image", <<"a">>, <<"i", ".", "p", "n", "g">>)>>),
        Token("paragraph_close", <<"p">>, <<>>, <<>>, <<>>) >>]

\* The document link and the tokens markdown-it parses it to.
DocLink ==
    [markdown |-> <<"[", "t", "]", "(", "u", ")">>,
     tokens |-> <<
        Token("paragraph_open", <<"p">>, <<>>, <<>>, <<>>),
        Inline(<<Child("link_open", <<>>, <<"u">>), Child("text",
            <<"t">>, <<>>), Child("link_close", <<>>, <<>>)>>),
        Token("paragraph_close", <<"p">>, <<>>, <<>>, <<>>) >>]

\* The document strike and the tokens markdown-it parses it to.
DocStrike ==
    [markdown |-> <<"~", "~", "s", "~", "~">>,
     tokens |-> <<
        Token("paragraph_open", <<"p">>, <<>>, <<>>, <<>>),
        Inline(<<Child("s_open", <<>>, <<>>), Child("text", <<"s">>,
            <<>>), Child("s_close", <<>>, <<>>)>>),
        Token("paragraph_close", <<"p">>, <<>>, <<>>, <<>>) >>]

\* The document code and the tokens markdown-it parses it to.
DocCode ==
    [markdown |-> <<"U0060", "x", "_", "y", "U0060">>,
     tokens |-> <<
        Token("paragraph_open", <<"p">>, <<>>, <<>>, <<>>),
        Inline(<<Child("code_inline", <<"x", "_", "y">>, <<>>)>>),
        Token("paragraph_close", <<"p">>, <<>>, <<>>, <<>>) >>]

\* The document list and the tokens markdown-it parses it to.
DocList ==
    [markdown |-> <<"-", " ", "a">>,
     tokens |-> <<
        Token("bullet_list_open", <<"u", "l">>, <<>>, <<>>, <<>>),
        Token("list_item_open", <<"l", "i">>, <<>>, <<>>, <<>>),
        Token("paragraph_open", <<"p">>, <<>>, <<>>, <<>>),
        Inline(<<Child("text", <<"a">>, <<>>)>>),
        Token("paragraph_close", <<"p">>, <<>>, <<>>, <<>>),
        Token("list_item_close", <<"l", "i">>, <<>>, <<>>, <<>>),
        Token("bullet_list_close", <<"u", "l">>, <<>>, <<>>, <<>>) >>]

\* The document quote and the tokens markdown-it parses it to.
DocQuote ==
    [markdown |-> <<">", " ", "q">>,
     tokens |-> <<
        Token("blockquote_open", <<"b", "l", "o", "c", "k", "q", "u",
            "o", "t", "e">>, <<>>, <<>>, <<>>),
        Token("paragraph_open", <<"p">>, <<>>, <<>>, <<>>),
        Inline(<<Child("text", <<"q">>, <<>>)>>),
        Token("paragraph_close", <<"p">>, <<>>, <<>>, <<>>),
        Token("blockquote_close", <<"b", "l", "o", "c", "k", "q", "u",
            "o", "t", "e">>, <<>>, <<>>, <<>>) >>]

\* The document rule and the tokens markdown-it parses it to.
DocRule ==
    [markdown |-> <<"-", "-", "-">>,
     tokens |-> <<
        Token("hr", <<"h", "r">>, <<>>, <<>>, <<>>) >>]

\* The document table and the tokens markdown-it parses it to.
DocTable ==
    [markdown |-> <<"|", " ", "U7279", "U6027", " ", "|", " ", "U8BF4", "U660E", " ",
        "|", "\n", "|", " ", "-", "-", "-", " ", "|", " ", "-", "-", "-",
        " ", "|", "\n", "|", " ", "F", "a", "s", "t", " ", "|", " ", "A",
        " ", "s", "h", "o", "r", "t", " ", "n", "o", "t", "e", " ", "|",
        "\n", "|", " ", "U4E2D", "U6587", "U6D4B", "U8BD5", " ", "|", " ",
        "U4E00", "U4E2A", "U5F88", "U957F", "U7684", "U4E2D", "U6587",
        "U8BF4", "U660E", "U6587", "U672C", "U7528", "U4E8E", "U89E6",
        "U53D1", "U81EA", "U52A8", "U6362", "U884C", "U5904", "U7406", " ",
        "|">>,
     tokens |-> <<
        Token("table_open", <<"t", "a", "b", "l", "e">>, <<>>, <<>>,
            <<>>),
        Token("thead_open", <<"t", "h", "e", "a", "d">>, <<>>, <<>>,
            <<>>),
        Token("tr_open", <<"t", "r">>, <<>>, <<>>, <<>>),
        Token("th_open", <<"t", "h">>, <<>>, <<>>, <<>>),
        Inline(<<Child("text", <<"U7279", "U6027">>, <<>>)>>),
        Token("th_close", <<"t", "h">>, <<>>, <<>>, <<>>),
        Token("th_open", <<"t", "h">>, <<>>, <<>>, <<>>),
        Inline(<<Child("text", <<"U8BF4", "U660E">>, <<>>)>>),
        Token("th_close", <<"t", "h">>, <<>>, <<>>, <<>>),
        Token("tr_close", <<"t", "r">>, <<>>, <<>>, <<>>),
        Token("thead_close", <<"t", "h", "e", "a", "d">>, <<>>, <<>>,
            <<>>),
        Token("tbody_open", <<"t", "b", "o", "d", "y">>, <<>>, <<>>,
            <<>>),
        Token("tr_open", <<"t", "r">>, <<>>, <<>>, <<>>),
        Token("td_open", <<"t", "d">>, <<>>, <<>>, <<>>),
        Inline(<<Child("text", <<"F", "a", "s", "t">>, <<>>)>>),
        Token("td_close", <<"t", "d">>, <<>>, <<>>, <<>>),
        Token("td_open", <<"t", "d">>, <<>>, <<>>, <<>>),
        Inline(<<Child("text", <<"A", " ", "s", "h", "o", "r", "t", " ",
            "n", "o", "t", "e">>, <<>>)>>),
        Token("td_close", <<"t", "d">>, <<>>, <<>>, <<>>),
        Token("tr_close", <<"t", "r">>, <<>>, <<>>, <<>>),
        Token("tr_open", <<"t", "r">>, <<>>, <<>>, <<>>),
        Token("td_open", <<"t", "d">>, <<>>, <<>>, <<>>),
        Inline(<<Child("text", <<"U4E2D", "U6587", "U6D4B", "U8BD5">>,
            <<>>)>>),
        Token("td_close", <<"t", "d">>, <<>>, <<>>, <<>>),
        Token("td_open", <<"t", "d">>, <<>>, <<>>, <<>>),
        Inline(<<Child("text", <<"U4E00", "U4E2A", "U5F88", "U957F",
            "U7684", "U4E2D", "U6587", "U8BF4", "U660E", "U6587", "U672C",
            "U7528", "U4E8E", "U89E6", "U53D1", "U81EA", "U52A8", "U6362",
            "U884C", "U5904", "U7406">>, <<>>)>>),
        Token("td_close", <<"t", "d">>, <<>>, <<>>, <<>>),
        Token("tr_close", <<"t", "r">>, <<>>, <<>>, <<>>),
        Token("tbody_close", <<"t", "b", "o", "d", "y">>, <<>>, <<>>,
            <<>>),
        Token("table_close", <<"t", "a", "b", "l", "e">>, <<>>, <<>>,
            <<>>) >>]

\* The document aligned and the tokens markdown-it parses it to.
DocAligned ==
    [markdown |-> <<"|", " ", "h", " ", "|", " ", "k", " ", "|", "\n", "|", ":", "-",
        ":", "|", "-", "-", ":", "|", "\n", "|", " ", "a", " ", "|", " ",
        "b", " ", "|">>,
     tokens |-> <<
        Token("table_open", <<"t", "a", "b", "l", "e">>, <<>>, <<>>,
            <<>>),
        Token("thead_open", <<"t", "h", "e", "a", "d">>, <<>>, <<>>,
            <<>>),
        Token("tr_open", <<"t", "r">>, <<>>, <<>>, <<>>),
        Token("th_open", <<"t", "h">>, <<>>, <<>>, <<"t", "e", "x", "t",
            "-", "a", "l", "i", "g", "n", ":", "c", "e", "n", "t", "e",
            "r">>),
        Inline(<<Child("text", <<"h">>, <<>>)>>),
        Token("th_close", <<"t", "h">>, <<>>, <<>>, <<>>),
        Token("th_open", <<"t", "h">>, <<>>, <<>>, <<"t", "e", "x", "t",
            "-", "a", "l", "i", "g", "n", ":", "r", "i", "g", "h", "t">>),
        Inline(<<Child("text", <<"k">>, <<>>)>>),
        Token("th_close", <<"t", "h">>, <<>>, <<>>, <<>>),
        Token("tr_close", <<"t", "r">>, <<>>, <<>>, <<>>),
        Token("thead_close", <<"t", "h", "e", "a", "d">>, <<>>, <<>>,
            <<>>),
        Token("tbody_open", <<"t", "b", "o", "d", "y">>, <<>>, <<>>,
            <<>>),
        Token("tr_open", <<"t", "r">>, <<>>, <<>>, <<>>),
        Token("td_open", <<"t", "d">>, <<>>, <<>>, <<"t", "e", "x", "t",
            "-", "a", "l", "i", "g", "n", ":", "c", "e", "n", "t", "e",
            "r">>),
        Inline(<<Child("text", <<"a">>, <<>>)>>),
        Token("td_close", <<"t", "d">>, <<>>, <<>>, <<>>),
        Token("td_open", <<"t", "d">>, <<>>, <<>>, <<"t", "e", "x", "t",
            "-", "a", "l", "i", "g", "n", ":", "r", "i", "g", "h", "t">>),
        Inline(<<Child("text", <<"b">>, <<>>)>>),
        Token("td_close", <<"t", "d">>, <<>>, <<>>, <<>>),
        Token("tr_close", <<"t", "r">>, <<>>, <<>>, <<>>),
        Token("tbody_close", <<"t", "b", "o", "d", "y">>, <<>>, <<>>,
            <<>>),
        Token("table_close", <<"t", "a", "b", "l", "e">>, <<>>, <<>>,
            <<>>) >>]

\* The document headings, one heading of each level of Markdown, and the
\* tokens markdown-it parses it to.
DocHeadings ==
    [markdown |->
        <<"#", " ", "A", "\n", "#", "#", " ", "B", "\n", "#", "#", "#", " ",
          "C", "\n", "#", "#", "#", "#", " ", "D", "\n", "#", "#", "#", "#",
          "#", " ", "E", "\n", "#", "#", "#", "#", "#", "#", " ", "F">>,
     tokens |-> <<
        Token("heading_open", <<"h", "1">>, <<>>, <<>>, <<>>),
        Inline(<<Child("text", <<"A">>, <<>>)>>),
        Token("heading_close", <<"h", "1">>, <<>>, <<>>, <<>>),
        Token("heading_open", <<"h", "2">>, <<>>, <<>>, <<>>),
        Inline(<<Child("text", <<"B">>, <<>>)>>),
        Token("heading_close", <<"h", "2">>, <<>>, <<>>, <<>>),
        Token("heading_open", <<"h", "3">>, <<>>, <<>>, <<>>),
        Inline(<<Child("text", <<"C">>, <<>>)>>),
        Token("heading_close", <<"h", "3">>, <<>>, <<>>, <<>>),
        Token("heading_open", <<"h", "4">>, <<>>, <<>>, <<>>),
        Inline(<<Child("text", <<"D">>, <<>>)>>),
        Token("heading_close", <<"h", "4">>, <<>>, <<>>, <<>>),
        Token("heading_open", <<"h", "5">>, <<>>, <<>>, <<>>),
        Inline(<<Child("text", <<"E">>, <<>>)>>),
        Token("heading_close", <<"h", "5">>, <<>>, <<>>, <<>>),
        Token("heading_open", <<"h", "6">>, <<>>, <<>>, <<>>),
        Inline(<<Child("text", <<"F">>, <<>>)>>),
        Token("heading_close", <<"h", "6">>, <<>>, <<>>, <<>>) >>]

\* A token stream with a heading of level 7, which markdown-it does not
\* produce by itself: the tokens of a parser extension.
DocDeep ==
    [markdown |-> <<"#", "#", "#", "#", "#", "#", "#", " ", "G">>,
     tokens |-> <<
        Token("heading_open", <<"h", "7">>, <<>>, <<>>, <<>>),
        Inline(<<Child("text", <<"G">>, <<>>)>>),
        Token("heading_close", <<"h", "7">>, <<>>, <<>>, <<>>) >>]

\* A token stream with block tokens of a type renderToken has no case for
\* (html_block, which markdown-it produces under html: true), at the top
\* level, in a blockquote, in a list item and at the end.
DocUnknown ==
    [markdown |->
        <<"A", "\n", "\n", ">", " ", "B", "\n", "\n", "-", " ", "C">>,
     tokens |-> <<
        Token("paragraph_open", <<"p">>, <<>>, <<>>, <<>>),
        Inline(<<Child("text", <<"A">>, <<>>)>>),
        Token("paragraph_close", <<"p">>, <<>>, <<>>, <<>>),
        Token("html_block", <<>>, <<>>, <<"<", "b", ">", "\n">>, <<>>),
        Token("blockquote_open", <<"b", "l", "o", "c", "k", "q", "u", "o", "t", "e">>, <<>>, <<>>, <<>>),
        Token("paragraph_open", <<"p">>, <<>>, <<>>, <<>>),
        Inline(<<Child("text", <<"B">>, <<>>)>>),
        Token("paragraph_close", <<"p">>, <<>>, <<>>, <<>>),
        Token("html_block", <<>>, <<>>, <<"<", "b", ">", "\n">>, <<>>),
        Token("blockquote_close", <<"b", "l", "o", "c", "k", "q", "u", "o", "t", "e">>, <<>>, <<>>, <<>>),
        Token("bullet_list_open", <<"u", "l">>, <<>>, <<>>, <<>>),
        Token("list_item_open", <<"l", "i">>, <<>>, <<>>, <<>>),
        Token("paragraph_open", <<"p">>, <<>>, <<>>, <<>>),
        Inline(<<Child("text", <<"C">>, <<>>)>>),
        Token("paragraph_close", <<"p">>, <<>>, <<>>, <<>>),
        Token("html_block", <<>>, <<>>, <<"<", "b", ">", "\n">>, <<>>),
        Token("list_item_close", <<"l", "i">>, <<>>, <<>>, <<>>),
        Token("bullet_list_close", <<"u", "l">>, <<>>, <<>>, <<>>),
        Token("html_block", <<>>, <<>>, <<"<", "b", ">", "\n">>, <<>>) >>]

\* The document nested, a list whose first item holds a list of the same
\* kind, and the tokens markdown-it parses it to.
DocNested ==
    [markdown |->
        <<"-", " ", "a", "\n", " ", " ", "-", " ", "b", "\n", "-", " ", "c">>,
     tokens |-> <<
        Token("bullet_list_open", <<"u", "l">>, <<>>, <<>>, <<>>),
        Token("list_item_open", <<"l", "i">>, <<>>, <<>>, <<>>),
        Token("paragraph_open", <<"p">>, <<>>, <<>>, <<>>),
        Inline(<<Child("text", <<"a">>, <<>>)>>),
        Token("paragraph_close", <<"p">>, <<>>, <<>>, <<>>),
        Token("bullet_list_open", <<"u", "l">>, <<>>, <<>>, <<>>),
        Token("list_item_open", <<"l", "i">>, <<>>, <<>>, <<>>),
        Token("paragraph_open", <<"p">>, <<>>, <<>>, <<>>),
        Inline(<<Child("text", <<"b">>, <<>>)>>),
        Token("paragraph_close", <<"p">>, <<>>, <<>>, <<>>),
        Token("list_item_close", <<"l", "i">>, <<>>, <<>>, <<>>),
        Token("bullet_list_close", <<"u", "l">>, <<>>, <<>>, <<>>),
        Token("list_item_close", <<"l", "i">>, <<>>, <<>>, <<>>),
        Token("list_item_open", <<"l", "i">>, <<>>, <<>>, <<>>),
        Token("paragraph_open", <<"p">>, <<>>, <<>>, <<>>),
        Inline(<<Child("text", <<"c">>, <<>>)>>),
        Token("paragraph_close", <<"p">>, <<>>, <<>>, <<>>),
        Token("list_item_close", <<"l", "i">>, <<>>, <<>>, <<>>),
        Token("bullet_list_close", <<"u", "l">>, <<>>, <<>>, <<>>) >>]

\* The document repeat, a paragraph whose bold text also occurs before the
\* bold run, and the tokens markdown-it parses it to.
DocRepeat ==
    [markdown |-> <<"a", " ", "*", "*", "a", "*", "*">>,
     tokens |-> <<
        Token("paragraph_open", <<"p">>, <<>>, <<>>, <<>>),
        Inline(<<Child("text", <<"a", " ">>, <<>>),
                 Child("strong_open", <<>>, <<>>),
                 Child("text", <<"a">>, <<>>),
                 Child("strong_close", <<>>, <<>>)>>),
        Token("paragraph_close", <<"p">>, <<>>, <<>>, <<>>) >>]

\* markdown-it's parse of each document of the model, by name.
Docs ==
    [empty |-> DocEmpty, heading |-> DocHeading, para |-> DocPara,
     math |-> DocMath, chinese |-> DocChinese, fence |-> DocFence,
     indented |-> DocIndented, image |-> DocImage, link |-> DocLink,
     strike |-> DocStrike, code |-> DocCode, list |-> DocList,
     quote |-> DocQuote, rule |-> DocRule, table |-> DocTable,
     aligned |-> DocAligned, headings |-> DocHeadings, deep |-> DocDeep,
     unknown |-> DocUnknown, nested |-> DocNested, repeat |-> DocRepeat]

DocNames == DOMAIN Docs

RndConfigs == [tableStyle : TableStyles, autoWrapThreshold : {5, 20}]

RndInit ==
    /\ FpsIdle
    /\ IniIdle
    /\ StrIdle
    /\ HldIdle
    /\ NtfIdle
    /\ EscIdle
    /\ TblIdle
    /\ GenIdle
    /\ CmpIdle
    /\ \E tableConfig \in RndConfigs :
          LET renderer == LatexRenderer(tableConfig)
          IN  /\ rndConfig = renderer.config
              /\ rndPackages = renderer.packages
              /\ rndFlags = renderer.flags
              /\ rndCallConfig = renderer.config
    /\ rndCalls = <<>>
    /\ rndResult = NoRenderResult

\* render(markdown)
Render ==
    /\ Len(rndCalls) < MaxRenders
    /\ \E name \in DocNames :
          /\ rndResult' = render(Docs[name], rndPackages, rndFlags, rndConfig)
          /\ rndPackages' = rndResult'.packages
          /\ rndFlags' = rndResult'.flags
          /\ rndCalls' = Append(rndCalls, name)
    /\ rndCallConfig' = rndConfig
    /\ UNCHANGED <<rndConfig, escVars, tblVars, genVars, cmpVars, ntfVars, hldVars, strVars, iniVars, fpsVars>>

\* updateTableConfig(config)
UpdateTableConfig ==
    /\ \E config \in [tableStyle : TableStyles] \cup [autoWrapThreshold : {5, 20}] :
          rndConfig' = updateConfig(rndConfig, config)
    /\ UNCHANGED <<rndPackages, rndFlags, rndCalls, rndCallConfig, rndResult,
                   escVars, tblVars, genVars, cmpVars, ntfVars, hldVars, strVars, iniVars, fpsVars>>

RndNext == Render \/ UpdateTableConfig

RndSpec == RndInit /\ [][RndNext]_vars

----------------------------------------------------------------------------
(* The specification of kept results: a caller renders one document after   *)
(* another with one renderer and keeps every result.                        *)

KeptDocNames == {"para", "link", "strike", "image", "table", "fence"}

HldInit ==
    /\ RndInit
    /\ FpsIdle
    /\ IniIdle
    /\ StrIdle
    /\ HldIdle

\* render(markdown), whose result the caller keeps: the field packages of the
\* result is the Set this.packages of the renderer, which every result
\* returned before holds as well and which this call clears and fills.
RenderKept ==
    /\ Len(rndCalls) < MaxRenders
    /\ \E name \in KeptDocNames :
          /\ rndResult' = render(Docs[name], rndPackages, rndFlags, rndConfig)
          /\ rndPackages' = rndResult'.packages
          /\ rndFlags' = rndResult'.flags
          /\ rndCalls' = Append(rndCalls, name)
          /\ hldResults' =
                 Append([k \in 1..Len(hldResults) |->
                            [hldResults[k] EXCEPT !.packages = rndResult'.packages]],
                        rndResult')
    /\ rndCallConfig' = rndConfig
    /\ UNCHANGED <<rndConfig, escVars, tblVars, genVars, cmpVars, ntfVars, strVars, iniVars, fpsVars>>

HldNext == RenderKept

HldSpec == HldInit /\ [][HldNext]_vars

----------------------------------------------------------------------------
(* The generator's specification: generate is called once on a render       *)
(* result, a document configuration and a forExport flag drawn from the     *)
(* sets below.                                                              *)

\* The packages the renderer and the table processor add to the set.
RenderPackages == {"hyperref", "ulem", "booktabs", "tabularx", "longtable"}

\* The contents: the empty string, one line, several lines with an empty
\* line between them.
GenContents ==
    {<<"">>, <<"Hello">>, <<"\\section{Title}", "", "Text \\textbf{bold}">>}

GenResults ==
    [content : GenContents, packages : SUBSET RenderPackages,
     flags : [hasChinese : BOOLEAN, hasImages : BOOLEAN, hasTables : BOOLEAN,
              hasCode : BOOLEAN, hasMath : BOOLEAN]]

DocumentConfigs ==
    {[documentClass |-> c[1], fontSize |-> c[2], pageSize |-> c[3],
      enableChinese |-> ch, enableTOC |-> toc] :
        c \in {<<"article", "11pt", "a4paper">>, <<"report", "12pt", "letterpaper">>},
        ch \in BOOLEAN, toc \in BOOLEAN}

GenInit ==
    /\ FpsIdle
    /\ IniIdle
    /\ StrIdle
    /\ HldIdle
    /\ NtfIdle
    /\ EscIdle
    /\ TblIdle
    /\ RndIdle
    /\ CmpIdle
    /\ genResult \in GenResults
    /\ genConfig \in DocumentConfigs
    /\ genForExport \in BOOLEAN
    /\ genOutput = <<>>
    /\ genPc = "call"

\* generate(renderResult, config, forExport)
Generate ==
    /\ genPc = "call"
    /\ genOutput' = generate(genResult, genConfig, genForExport)
    /\ genPc' = "done"
    /\ UNCHANGED <<genResult, genConfig, genForExport,
                   escVars, tblVars, rndVars, cmpVars, ntfVars, hldVars, strVars, iniVars, fpsVars>>

GenNext == Generate

GenSpec == GenInit /\ [][GenNext]_vars

----------------------------------------------------------------------------
(* The specification of token streams: renderTokens is called once on a     *)
(* stream of list, item, quote and paragraph tokens in any order, closed or *)
(* not.                                                                     *)

MaxPieces == 4

\* The pieces of a stream: an open or a close token of a list, an item or a
\* quote, or the three tokens of a paragraph.
StreamPieces ==
    {<<Tok(type)>> :
        type \in {"bullet_list_open", "bullet_list_close", "ordered_list_open",
                  "ordered_list_close", "list_item_open", "list_item_close",
                  "blockquote_open", "blockquote_close"}}
    \cup {<<Token("paragraph_open", <<"p">>, <<>>, <<>>, <<>>),
             Inline(<<Child("text", <<"x">>, <<>>)>>),
             Token("paragraph_close", <<"p">>, <<>>, <<>>, <<>>)>>}

\* The stream of a quote that holds a bullet list whose item holds a
\* paragraph and an ordered list, every token closed in order.
DeepStream ==
    <<Tok("blockquote_open"), Tok("bullet_list_open"), Tok("list_item_open"),
      Token("paragraph_open", <<"p">>, <<>>, <<>>, <<>>),
      Inline(<<Child("text", <<"x">>, <<>>)>>),
      Token("paragraph_close", <<"p">>, <<>>, <<>>, <<>>),
      Tok("ordered_list_open"), Tok("list_item_open"),
      Token("paragraph_open", <<"p">>, <<>>, <<>>, <<>>),
      Inline(<<Child("text", <<"x">>, <<>>)>>),
      Token("paragraph_close", <<"p">>, <<>>, <<>>, <<>>),
      Tok("list_item_close"), Tok("ordered_list_close"),
      Tok("list_item_close"), Tok("bullet_list_close"),
      Tok("blockquote_close")>>

CloseTypes ==
    {"bullet_list_close", "ordered_list_close", "list_item_close",
     "blockquote_close"}

\* DeepStream with one of its close tokens missing or of another type.
BrokenStreams ==
    {SubSeq(DeepStream, 1, k - 1) \o SubSeq(DeepStream, k + 1, Len(DeepStream)) :
        k \in {j \in 1..Len(DeepStream) : DeepStream[j].type \in CloseTypes}}
    \cup {[DeepStream EXCEPT ![k] = Tok(type)] :
             k \in {j \in 1..Len(DeepStream) : DeepStream[j].type \in CloseTypes},
             type \in CloseTypes}

StrInit ==
    /\ FpsIdle
    /\ IniIdle
    /\ EscIdle
    /\ TblIdle
    /\ RndIdle
    /\ GenIdle
    /\ CmpIdle
    /\ NtfIdle
    /\ HldIdle
    /\ \/ \E pieces \in SeqsUpTo(StreamPieces, MaxPieces) :
             strTokens = Concat(pieces)
       \/ strTokens \in BrokenStreams
    /\ strContent = <<>>
    /\ strPc = "call"

\* renderTokens(tokens)
RenderTokens ==
    /\ strPc = "call"
    /\ strContent' = renderTokens(strTokens, DefaultTableConfig).out
    /\ strPc' = "done"
    /\ UNCHANGED <<strTokens, escVars, tblVars, rndVars, genVars, cmpVars,
                   ntfVars, hldVars, iniVars, fpsVars>>

StrNext == RenderTokens

StrSpec == StrInit /\ [][StrNext]_vars

----------------------------------------------------------------------------
(* The pipeline's specification: the application renders one document and   *)
(* hands the result to generate with a document configuration.              *)

RECURSIVE JoinChars(_, _, _)
\* The string made of the characters lo to hi of text.
JoinChars(text, lo, hi) ==
    IF lo > hi THEN ""
    ELSE IF lo = hi THEN text[lo]
    ELSE LET mid == (lo + hi) \div 2
         IN  JoinChars(text, lo, mid) \o JoinChars(text, mid + 1, hi)

\* The lines of a text: the generator's view of a string of the renderer.
LinesOf(text) ==
    LET breaks == {i \in 1..Len(text) : text[i] = "\n"}
        break(k) == CHOOSE i \in breaks :
                        Cardinality({j \in breaks : j < i}) = k - 1
    IN  [k \in 1..(Cardinality(breaks) + 1) |->
            JoinChars(text,
                      IF k = 1 THEN 1 ELSE break(k - 1) + 1,
                      IF k = Cardinality(breaks) + 1 THEN Len(text)
                      ELSE break(k) - 1)]

\* The rows of the document long: more than the 30 rows up to which
\* selectEnvironment keeps a table out of longtable.
LongRows == 31

\* The document long, a table of one column with a header row and LongRows
\* body rows, and the tokens markdown-it parses it to.
DocLong ==
    [markdown |->
        <<"|", " ", "n", " ", "|", "\n", "|", " ", "-", "-", "-", " ", "|">>
        \o Concat(SeqOf(LongRows, LAMBDA r : <<"\n", "|", " ", "x", " ", "|">>)),
     tokens |->
        <<Token("table_open", <<"t", "a", "b", "l", "e">>, <<>>, <<>>, <<>>),
          Token("thead_open", <<"t", "h", "e", "a", "d">>, <<>>, <<>>, <<>>),
          Token("tr_open", <<"t", "r">>, <<>>, <<>>, <<>>),
          Token("th_open", <<"t", "h">>, <<>>, <<>>, <<>>),
          Inline(<<Child("text", <<"n">>, <<>>)>>),
          Token("th_close", <<"t", "h">>, <<>>, <<>>, <<>>),
          Token("tr_close", <<"t", "r">>, <<>>, <<>>, <<>>),
          Token("thead_close", <<"t", "h", "e", "a", "d">>, <<>>, <<>>, <<>>),
          Token("tbody_open", <<"t", "b", "o", "d", "y">>, <<>>, <<>>, <<>>)>>
        \o Concat(SeqOf(LongRows, LAMBDA r :
               <<Token("tr_open", <<"t", "r">>, <<>>, <<>>, <<>>),
                 Token("td_open", <<"t", "d">>, <<>>, <<>>, <<>>),
                 Inline(<<Child("text", <<"x">>, <<>>)>>),
                 Token("td_close", <<"t", "d">>, <<>>, <<>>, <<>>),
                 Token("tr_close", <<"t", "r">>, <<>>, <<>>, <<>>)>>))
        \o <<Token("tbody_close", <<"t", "b", "o", "d", "y">>, <<>>, <<>>, <<>>),
             Token("table_close", <<"t", "a", "b", "l", "e">>, <<>>, <<>>, <<>>)>>]

\* The documents of the pipeline, by name.
PipDocs ==
    [name \in DocNames \cup {"long"} |->
        IF name = "long" THEN DocLong ELSE Docs[name]]

PipInit == RndInit

\* render(markdown), the first step of the pipeline.
PipRender ==
    /\ rndCalls = <<>>
    /\ \E name \in DOMAIN PipDocs :
          /\ rndResult' = render(PipDocs[name], rndPackages, rndFlags, rndConfig)
          /\ rndPackages' = rndResult'.packages
          /\ rndFlags' = rndResult'.flags
          /\ rndCalls' = <<name>>
    /\ rndCallConfig' = rndConfig
    /\ UNCHANGED <<rndConfig, escVars, tblVars, genVars, cmpVars, ntfVars,
                   hldVars, strVars, iniVars, fpsVars>>

\* generate(renderResult, config, forExport) on the result of render.
PipGenerate ==
    /\ Len(rndCalls) = 1
    /\ genPc = "idle"
    /\ genResult' = [content |-> LinesOf(rndResult.content),
                     packages |-> rndResult.packages,
                     flags |-> rndResult.flags]
    /\ genConfig' \in DocumentConfigs
    /\ genForExport' \in BOOLEAN
    /\ genOutput' = generate(genResult', genConfig', genForExport')
    /\ genPc' = "done"
    /\ UNCHANGED <<escVars, tblVars, rndVars, cmpVars, ntfVars, hldVars, strVars, iniVars, fpsVars>>

PipNext == PipRender \/ PipGenerate

PipSpec == PipInit /\ [][PipNext]_vars

----------------------------------------------------------------------------
(* The compile service's specification (src/src/services/                   *)
(* swiftlatexService.ts): one caller calls compile, one call after the      *)
(* other, and cleanup between two calls.  A call is followed from await to  *)
(* await.  What the browser and the engines answer is drawn from every      *)
(* answer they can give: a script loads or fails to, a loaded script has    *)
(* registered its constructor or not, an engine call returns or throws.     *)
(* The texts of the errors are rendered in English.                         *)

MaxCompiles == 2

\* The constructors the engine scripts register on window.
Constructors == {"PdfTeXEngine", "XeTeXEngine", "DvipdfmxEngine"}

\* The promise of compile resolved with a CompileResult; an absent error is
\* the empty text.
Resolved(success, pdf, error) ==
    [kind |-> "resolved", success |-> success, pdf |-> pdf, error |-> error]

\* The promise of compile was rejected with an Error.
Rejected(error) ==
    [kind |-> "rejected", success |-> FALSE, pdf |-> FALSE, error |-> error]

\* The catch block of compile.
CompileCaught(message) ==
    Resolved(FALSE, FALSE,
             "compile failed: " \o (IF message # "" THEN message ELSE "unknown error"))

isEngineLoaded == cmpWindow \cap {"PdfTeXEngine", "XeTeXEngine"} # {}

\* const testSimple = true of compile, and the document it puts in the place
\* of latexContent.
testSimple == TRUE

TestDocument ==
    <<"\\documentclass{article}", "\\begin{document}", "Hello World",
      "\\end{document}">>

\* The documents compile is called with, as their lines, each with the value
\* of /[一-龥]/.test(latexContent).
CompileInputs ==
    {[latexContent |-> TestDocument, hasChinese |-> FALSE],
     [latexContent |-> <<"\\documentclass[11pt,a4paper]{article}",
                         "\\begin{document}", "Text", "\\end{document}">>,
      hasChinese |-> FALSE],
     [latexContent |-> <<"\\documentclass[11pt,a4paper]{article}",
                         "\\usepackage{xeCJK}",
                         "\\begin{document}", "U4E2DU6587", "\\end{document}">>,
      hasChinese |-> TRUE]}

\* emitProgress({stage, progress, message}) to a subscribed listener.
Emit(delivered, stage, progress) ==
    Append(delivered, [stage |-> stage, progress |-> progress])

CmpInit ==
    /\ FpsIdle
    /\ IniIdle
    /\ StrIdle
    /\ HldIdle
    /\ NtfIdle
    /\ EscIdle
    /\ TblIdle
    /\ RndIdle
    /\ GenIdle
    /\ CmpIdle

\* compile(latexContent) up to the first await of initialize.
Compile ==
    /\ cmpPc = "idle"
    /\ cmpCalls < MaxCompiles
    /\ cmpCalls' = cmpCalls + 1
    /\ \E input \in CompileInputs :
          /\ cmpLatexContent' = input.latexContent
          /\ cmpHasChinese' = input.hasChinese
    /\ cmpOutcome' = NoOutcome
    /\ cmpLatexResult' = NoLatexResult
    /\ cmpProgress' = <<>>
    /\ cmpPc' = IF cmpEngine # "null" /\ cmpEngineStatus = "ready"
                THEN "prepare" ELSE "loadEngine"
    /\ UNCHANGED <<cmpWindow, cmpEngine, cmpDvipdfmEngine, cmpEngineStatus,
                   cmpIsLoading, cmpFontStatus, cmpMainTex,
                   escVars, tblVars, rndVars, genVars, ntfVars, hldVars, strVars, iniVars, fpsVars>>

\* loadEngine up to Promise.all: nothing to load when an engine constructor
\* is registered; no load is in progress when the only caller arrives.
LoadEngine ==
    /\ cmpPc = "loadEngine"
    /\ ~cmpIsLoading
    /\ IF isEngineLoaded
       THEN /\ cmpPc' = "initialize"
            /\ UNCHANGED <<cmpIsLoading, cmpEngineStatus, cmpProgress>>
       ELSE /\ cmpIsLoading' = TRUE
            /\ cmpEngineStatus' = "loading"
            /\ cmpProgress' = Emit(cmpProgress, "engine-loading", 10)
            /\ cmpPc' = "loadScripts"
    /\ UNCHANGED <<cmpWindow, cmpEngine, cmpDvipdfmEngine, cmpFontStatus,
                   cmpHasChinese, cmpLatexResult, cmpOutcome, cmpCalls,
                   cmpLatexContent, cmpMainTex,
                   escVars, tblVars, rndVars, genVars, ntfVars, hldVars, strVars, iniVars, fpsVars>>

\* loadEngine from Promise.all on: the engine script fires onload or
\* onerror; the dvipdfmx script resolves either way.  An onerror of the
\* engine script is rethrown by loadEngine and by initialize, whose call
\* compile awaits outside its try block.
LoadScripts ==
    /\ cmpPc = "loadScripts"
    /\ \E onload \in BOOLEAN, registered \in SUBSET Constructors :
          /\ onload \/ registered \subseteq {"DvipdfmxEngine"}
          /\ cmpWindow' = cmpWindow \cup registered
          /\ cmpIsLoading' = FALSE
          /\ IF onload
             THEN /\ cmpProgress' = Emit(cmpProgress, "engine-loading", 20)
                  /\ cmpPc' = "initialize"
                  /\ UNCHANGED <<cmpEngineStatus, cmpOutcome>>
             ELSE /\ cmpEngineStatus' = "error"
                  /\ cmpProgress' = Emit(cmpProgress, "error", 0)
                  /\ cmpOutcome' = Rejected("cannot load the XeTeX engine")
                  /\ cmpPc' = "idle"
    /\ UNCHANGED <<cmpEngine, cmpDvipdfmEngine, cmpFontStatus, cmpHasChinese,
                   cmpLatexResult, cmpCalls, cmpLatexContent, cmpMainTex,
                   escVars, tblVars, rndVars, genVars, ntfVars, hldVars, strVars, iniVars, fpsVars>>

\* initialize after loadEngine: its try block and its catch block, which
\* throws a new Error.
Initialize ==
    /\ cmpPc = "initialize"
    /\ IF ~isEngineLoaded
       THEN /\ cmpEngineStatus' = "error"
            /\ cmpProgress' = Emit(cmpProgress, "engine-loading", 25)
            /\ cmpOutcome' = Rejected("XeTeX engine initialization failed")
            /\ cmpPc' = "idle"
            /\ UNCHANGED <<cmpEngine, cmpDvipdfmEngine>>
       ELSE /\ cmpEngine' = IF "PdfTeXEngine" \in cmpWindow
                            THEN "PdfTeXEngine" ELSE "XeTeXEngine"
            /\ \E loaded \in BOOLEAN, dvipdfmLoaded \in BOOLEAN,
                  ready \in BOOLEAN, dvipdfmReady \in BOOLEAN :
                  LET dvipdfm == "DvipdfmxEngine" \in cmpWindow
                  IN  IF loaded /\ (dvipdfm => dvipdfmLoaded) /\ ready
                      THEN /\ cmpDvipdfmEngine' = (dvipdfm /\ dvipdfmReady)
                           /\ cmpEngineStatus' = "ready"
                           /\ cmpProgress' =
                                  Emit(Emit(Emit(cmpProgress,
                                                 "engine-loading", 25),
                                            "engine-loading", 35),
                                       "engine-loading", 30)
                           /\ cmpPc' = "prepare"
                           /\ UNCHANGED cmpOutcome
                      ELSE /\ cmpDvipdfmEngine' = dvipdfm
                           /\ cmpEngineStatus' = "error"
                           /\ cmpProgress' =
                                  Emit(cmpProgress, "engine-loading", 25)
                           /\ cmpOutcome' =
                                  Rejected("XeTeX engine initialization failed")
                           /\ cmpPc' = "idle"
    /\ UNCHANGED <<cmpWindow, cmpIsLoading, cmpFontStatus, cmpHasChinese,
                   cmpLatexResult, cmpCalls, cmpLatexContent, cmpMainTex,
                   escVars, tblVars, rndVars, genVars, ntfVars, hldVars, strVars, iniVars, fpsVars>>

\* The try block of compile up to engine.compileLaTeX(): loadChineseFonts
\* when the content holds an ideograph and the regular font is not loaded,
\* then flushCache and the write of main.tex; threw is the engine call that
\* throws, if one does.
Prepare ==
    /\ cmpPc = "prepare"
    /\ \E fetched \in BOOLEAN, threw \in {"none", "flushCache", "writeMemFSFile"} :
          LET loadFont == cmpHasChinese /\ cmpFontStatus # "loaded"
              prepared == Emit(cmpProgress, "file-preparing", 45)
              fontLoading == IF loadFont
                             THEN Emit(prepared, "font-loading", 35)
                             ELSE prepared
              fontLoaded == IF loadFont
                            THEN Emit(fontLoading, "font-loading", 40)
                            ELSE prepared
          IN  IF loadFont /\ ~fetched
              THEN /\ cmpFontStatus' = "error"
                   /\ cmpProgress' = Emit(fontLoading, "error", 0)
                   /\ cmpOutcome' = CompileCaught("font load failed")
                   /\ cmpPc' = "idle"
                   /\ UNCHANGED cmpMainTex
              ELSE /\ cmpFontStatus' = IF loadFont THEN "loaded" ELSE cmpFontStatus
                   /\ cmpMainTex' =
                          CASE threw = "flushCache" -> cmpMainTex
                            [] threw = "writeMemFSFile" -> NoFile
                            [] threw = "none" ->
                                   IF testSimple THEN TestDocument
                                   ELSE cmpLatexContent
                   /\ IF threw = "none"
                      THEN /\ cmpProgress' = Emit(fontLoaded, "compiling", 50)
                           /\ cmpPc' = "compileLaTeX"
                           /\ UNCHANGED cmpOutcome
                      ELSE /\ cmpProgress' = Emit(fontLoaded, "error", 0)
                           /\ cmpOutcome' = CompileCaught("")
                           /\ cmpPc' = "idle"
    /\ UNCHANGED <<cmpWindow, cmpEngine, cmpDvipdfmEngine, cmpEngineStatus,
                   cmpIsLoading, cmpHasChinese, cmpLatexResult, cmpCalls,
                   cmpLatexContent,
                   escVars, tblVars, rndVars, genVars, ntfVars, hldVars, strVars, iniVars, fpsVars>>

\* compile from the return of engine.compileLaTeX() to its return or to the
\* call of dvipdfmEngine.compilePDF().
CompileLaTeX ==
    /\ cmpPc = "compileLaTeX"
    /\ \E returned \in BOOLEAN, status \in {0, 1}, pdf \in BOOLEAN :
          LET isXeTeX == "XeTeXEngine" \in cmpWindow /\ cmpEngine = "XeTeXEngine"
              generating == Emit(cmpProgress, "generating-pdf", 70)
          IN  /\ cmpLatexResult' =
                     IF returned THEN [status |-> status, pdf |-> pdf]
                     ELSE cmpLatexResult
              /\ IF ~returned
                 THEN /\ cmpOutcome' = CompileCaught("")
                      /\ cmpProgress' = Emit(cmpProgress, "error", 0)
                      /\ cmpPc' = "idle"
                 ELSE IF isXeTeX /\ status = 0 /\ pdf
                 THEN IF ~cmpDvipdfmEngine
                      THEN /\ cmpOutcome' =
                                  Resolved(FALSE, FALSE, "DvipdfmxEngine unavailable")
                           /\ cmpProgress' = Emit(generating, "error", 0)
                           /\ cmpPc' = "idle"
                      ELSE /\ cmpPc' = "compilePDF"
                           /\ cmpProgress' = generating
                           /\ UNCHANGED cmpOutcome
                 ELSE IF status = 0 /\ pdf
                 THEN /\ cmpOutcome' = Resolved(TRUE, TRUE, "")
                      /\ cmpProgress' = Emit(generating, "complete", 100)
                      /\ cmpPc' = "idle"
                 ELSE /\ cmpOutcome' =
                            Resolved(FALSE, FALSE, "compile failed (status code)")
                      /\ cmpProgress' = Emit(generating, "error", 0)
                      /\ cmpPc' = "idle"
    /\ UNCHANGED <<cmpWindow, cmpEngine, cmpDvipdfmEngine, cmpEngineStatus,
                   cmpIsLoading, cmpFontStatus, cmpHasChinese, cmpCalls,
                   cmpLatexContent, cmpMainTex,
                   escVars, tblVars, rndVars, genVars, ntfVars, hldVars, strVars, iniVars, fpsVars>>

\* compile from the return of dvipdfmEngine.compilePDF() on.
CompilePDF ==
    /\ cmpPc = "compilePDF"
    /\ \E returned \in BOOLEAN, pdf \in BOOLEAN :
          /\ cmpOutcome' =
                 IF ~returned THEN CompileCaught("")
                 ELSE IF pdf THEN Resolved(TRUE, TRUE, "")
                 ELSE Resolved(FALSE, FALSE, "XDV to PDF failed (status code)")
          /\ cmpProgress' =
                 IF ~returned THEN Emit(cmpProgress, "error", 0)
                 ELSE IF pdf THEN Emit(cmpProgress, "complete", 100)
                 ELSE cmpProgress
    /\ cmpPc' = "idle"
    /\ UNCHANGED <<cmpWindow, cmpEngine, cmpDvipdfmEngine, cmpEngineStatus,
                   cmpIsLoading, cmpFontStatus, cmpHasChinese, cmpLatexResult,
                   cmpCalls, cmpLatexContent, cmpMainTex,
                   escVars, tblVars, rndVars, genVars, ntfVars, hldVars, strVars, iniVars, fpsVars>>

\* cleanup(), between two calls of compile: the workers are closed, and
\* their files with them.
Cleanup ==
    /\ cmpPc = "idle"
    /\ cmpEngine' = "null"
    /\ cmpDvipdfmEngine' = FALSE
    /\ cmpEngineStatus' = "unloaded"
    /\ cmpFontStatus' = "undefined"
    /\ cmpMainTex' = NoFile
    /\ UNCHANGED <<cmpWindow, cmpIsLoading, cmpHasChinese, cmpLatexResult,
                   cmpPc, cmpOutcome, cmpCalls, cmpLatexContent, cmpProgress,
                   escVars, tblVars, rndVars, genVars, ntfVars, hldVars, strVars, iniVars, fpsVars>>

CmpNext ==
    \/ Compile \/ LoadEngine \/ LoadScripts \/ Initialize \/ Prepare
    \/ CompileLaTeX \/ CompilePDF \/ Cleanup

CmpSpec == CmpInit /\ [][CmpNext]_vars

----------------------------------------------------------------------------
(* The specification of overlapping calls: each caller calls initialize of  *)
(* the SwiftLaTeXService once and loadEngine of the FrontendPdfService      *)
(* once, and the calls of the callers interleave at their awaits; cleanup   *)
(* is called while no call is between two awaits.  A script that loads      *)
(* registers its constructor.  No progress listener is subscribed.          *)

\* The awaits of initialize at which a call is under way.
IniRunning == {"loadScripts", "settle", "try", "engineLoading"}

\* initialize() up to its first await: the return when an engine is ready,
\* else loadEngine() up to the promise it returns.
InitializeCall ==
    /\ \E c \in Callers :
          /\ iniPc[c] = "idle"
          /\ IF iniHeld # 0 /\ cmpEngineStatus = "ready"
             THEN /\ iniPc' = [iniPc EXCEPT ![c] = "resolved"]
                  /\ UNCHANGED <<cmpIsLoading, cmpEngineStatus>>
             ELSE IF isEngineLoaded
             THEN /\ iniPc' = [iniPc EXCEPT ![c] = "try"]
                  /\ UNCHANGED <<cmpIsLoading, cmpEngineStatus>>
             ELSE IF cmpIsLoading
             THEN /\ iniPc' = [iniPc EXCEPT ![c] = "waiting"]
                  /\ UNCHANGED <<cmpIsLoading, cmpEngineStatus>>
             ELSE /\ cmpIsLoading' = TRUE
                  /\ cmpEngineStatus' = "loading"
                  /\ iniPc' = [iniPc EXCEPT ![c] = "loadScripts"]
    /\ UNCHANGED <<cmpWindow, cmpEngine, cmpDvipdfmEngine, cmpFontStatus,
                   cmpHasChinese, cmpLatexResult, cmpPc, cmpOutcome, cmpCalls,
                   cmpLatexContent, cmpMainTex, cmpProgress,
                   iniInstances, iniHeld, iniClosed,
                   escVars, tblVars, rndVars, genVars, ntfVars, hldVars,
                   strVars, fpsVars>>

\* The callback of setInterval of a loadEngine call that found a load in
\* progress: once a constructor is registered or engineStatus is 'error' it
\* clears the interval, and then throws inside the callback when the status
\* is 'error', which leaves the promise pending, or resolves.
PollEngine ==
    /\ \E c \in Callers :
          /\ iniPc[c] = "waiting"
          /\ iniPc' = IF isEngineLoaded \/ cmpEngineStatus = "error"
                      THEN [iniPc EXCEPT ![c] = IF cmpEngineStatus = "error"
                                                THEN "abandoned" ELSE "try"]
                      ELSE iniPc
    /\ UNCHANGED <<cmpVars, iniInstances, iniHeld, iniClosed,
                   escVars, tblVars, rndVars, genVars, ntfVars, hldVars,
                   strVars, fpsVars>>

\* Promise.all of loadEngine settles: the engine script fired onload, and
\* has registered its constructor, or fired onerror.  After onerror the catch
\* block rethrows and initialize, which awaits loadEngine outside its try
\* block, is rejected.
ScriptsSettle ==
    /\ \E c \in Callers, onload \in BOOLEAN, registered \in SUBSET Constructors :
          /\ iniPc[c] = "loadScripts"
          /\ IF onload THEN registered \cap {"PdfTeXEngine", "XeTeXEngine"} # {}
             ELSE registered \subseteq {"DvipdfmxEngine"}
          /\ cmpWindow' = cmpWindow \cup registered
          /\ IF onload
             THEN /\ iniPc' = [iniPc EXCEPT ![c] = "settle"]
                  /\ UNCHANGED <<cmpIsLoading, cmpEngineStatus>>
             ELSE /\ cmpIsLoading' = FALSE
                  /\ cmpEngineStatus' = "error"
                  /\ iniPc' = [iniPc EXCEPT ![c] = "rejected"]
    /\ UNCHANGED <<cmpEngine, cmpDvipdfmEngine, cmpFontStatus,
                   cmpHasChinese, cmpLatexResult, cmpPc, cmpOutcome, cmpCalls,
                   cmpLatexContent, cmpMainTex, cmpProgress,
                   iniInstances, iniHeld, iniClosed,
                   escVars, tblVars, rndVars, genVars, ntfVars, hldVars,
                   strVars, fpsVars>>

\* loadEngine after its wait of 300 ms.
ScriptsLoaded ==
    /\ \E c \in Callers :
          /\ iniPc[c] = "settle"
          /\ iniPc' = [iniPc EXCEPT ![c] = "try"]
    /\ cmpIsLoading' = FALSE
    /\ UNCHANGED <<cmpWindow, cmpEngine, cmpDvipdfmEngine, cmpEngineStatus,
                   cmpFontStatus,
                   cmpHasChinese, cmpLatexResult, cmpPc, cmpOutcome, cmpCalls,
                   cmpLatexContent, cmpMainTex, cmpProgress,
                   iniInstances, iniHeld, iniClosed,
                   escVars, tblVars, rndVars, genVars, ntfVars, hldVars,
                   strVars, fpsVars>>

\* The try block of initialize up to await this.engine.loadEngine(): a new
\* engine instance is stored in this.engine.
ConstructEngine ==
    /\ \E c \in Callers :
          /\ iniPc[c] = "try"
          /\ IF ~isEngineLoaded
             THEN /\ cmpEngineStatus' = "error"
                  /\ iniPc' = [iniPc EXCEPT ![c] = "rejected"]
                  /\ UNCHANGED <<cmpEngine, cmpDvipdfmEngine, iniInstances, iniHeld>>
             ELSE /\ cmpEngine' = IF "PdfTeXEngine" \in cmpWindow
                                  THEN "PdfTeXEngine" ELSE "XeTeXEngine"
                  /\ cmpDvipdfmEngine' = ("DvipdfmxEngine" \in cmpWindow)
                  /\ iniInstances' = iniInstances + 1
                  /\ iniHeld' = iniInstances + 1
                  /\ iniPc' = [iniPc EXCEPT ![c] = "engineLoading"]
                  /\ UNCHANGED cmpEngineStatus
    /\ UNCHANGED <<cmpWindow, cmpIsLoading, cmpFontStatus,
                   cmpHasChinese, cmpLatexResult, cmpPc, cmpOutcome, cmpCalls,
                   cmpLatexContent, cmpMainTex, cmpProgress, iniClosed,
                   escVars, tblVars, rndVars, genVars, ntfVars, hldVars,
                   strVars, fpsVars>>

\* initialize from the return of this.engine.loadEngine() on.
EngineLoaded ==
    /\ \E c \in Callers, ready \in BOOLEAN, dvipdfmReady \in BOOLEAN :
          /\ iniPc[c] = "engineLoading"
          /\ IF ready /\ iniHeld # 0
             THEN /\ cmpDvipdfmEngine' = (cmpDvipdfmEngine /\ dvipdfmReady)
                  /\ cmpEngineStatus' = "ready"
                  /\ iniPc' = [iniPc EXCEPT ![c] = "resolved"]
             ELSE /\ cmpEngineStatus' = "error"
                  /\ iniPc' = [iniPc EXCEPT ![c] = "rejected"]
                  /\ UNCHANGED cmpDvipdfmEngine
    /\ UNCHANGED <<cmpWindow, cmpEngine, cmpIsLoading, cmpFontStatus,
                   cmpHasChinese, cmpLatexResult, cmpPc, cmpOutcome, cmpCalls,
                   cmpLatexContent, cmpMainTex, cmpProgress,
                   iniInstances, iniHeld, iniClosed,
                   escVars, tblVars, rndVars, genVars, ntfVars, hldVars,
                   strVars, fpsVars>>

\* cleanup(): closeWorker of the engine this.engine holds.
CleanupEngine ==
    /\ \A c \in Callers : iniPc[c] \notin IniRunning
    /\ iniHeld # 0
    /\ iniClosed' = iniClosed \cup {iniHeld}
    /\ iniHeld' = 0
    /\ cmpEngine' = "null"
    /\ cmpDvipdfmEngine' = FALSE
    /\ cmpEngineStatus' = "unloaded"
    /\ cmpFontStatus' = "undefined"
    /\ UNCHANGED <<cmpWindow, cmpIsLoading,
                   cmpHasChinese, cmpLatexResult, cmpPc, cmpOutcome, cmpCalls,
                   cmpLatexContent, cmpMainTex, cmpProgress,
                   iniPc, iniInstances,
                   escVars, tblVars, rndVars, genVars, ntfVars, hldVars,
                   strVars, fpsVars>>

\* FrontendPdfService.loadEngine() up to the promise it returns.
FpsLoadEngine ==
    /\ \E c \in Callers :
          /\ fpsPc[c] = "idle"
          /\ IF fpsPDFTeX
             THEN fpsPc' = [fpsPc EXCEPT ![c] = "resolved"] /\ UNCHANGED fpsIsLoading
             ELSE IF fpsIsLoading
             THEN fpsPc' = [fpsPc EXCEPT ![c] = "waiting"] /\ UNCHANGED fpsIsLoading
             ELSE fpsPc' = [fpsPc EXCEPT ![c] = "loading"] /\ fpsIsLoading' = TRUE
    /\ UNCHANGED <<fpsPDFTeX, escVars, tblVars, rndVars, genVars, cmpVars,
                   ntfVars, hldVars, strVars, iniVars>>

\* script.onload or script.onerror of FrontendPdfService.loadEngine; a
\* script that loaded has defined window.PDFTeX.
FpsScriptEvent ==
    /\ \E c \in Callers, onload \in BOOLEAN :
          /\ fpsPc[c] = "loading"
          /\ fpsPDFTeX' = (fpsPDFTeX \/ onload)
          /\ fpsPc' = [fpsPc EXCEPT ![c] = IF onload THEN "resolved" ELSE "rejected"]
    /\ fpsIsLoading' = FALSE
    /\ UNCHANGED <<escVars, tblVars, rndVars, genVars, cmpVars,
                   ntfVars, hldVars, strVars, iniVars>>

\* The callback of setInterval of a FrontendPdfService.loadEngine call that
\* found a load in progress.
FpsPoll ==
    /\ \E c \in Callers :
          /\ fpsPc[c] = "waiting"
          /\ fpsPc' = IF fpsPDFTeX THEN [fpsPc EXCEPT ![c] = "resolved"] ELSE fpsPc
    /\ UNCHANGED <<fpsPDFTeX, fpsIsLoading, escVars, tblVars, rndVars, genVars,
                   cmpVars, ntfVars, hldVars, strVars, iniVars>>

IniInit ==
    /\ EscIdle
    /\ TblIdle
    /\ RndIdle
    /\ GenIdle
    /\ CmpIdle
    /\ NtfIdle
    /\ HldIdle
    /\ StrIdle
    /\ IniIdle
    /\ FpsIdle

IniNext ==
    \/ InitializeCall \/ PollEngine \/ ScriptsSettle \/ ScriptsLoaded
    \/ ConstructEngine \/ EngineLoaded \/ CleanupEngine
    \/ FpsLoadEngine \/ FpsScriptEvent \/ FpsPoll

IniSpec == IniInit /\ [][IniNext]_vars

\* The browser runs every timer callback and every script event, and the
\* engine answers every call.
IniFairSpec ==
    /\ IniSpec
    /\ WF_vars(PollEngine) /\ WF_vars(ScriptsSettle) /\ WF_vars(ScriptsLoaded)
    /\ WF_vars(ConstructEngine) /\ WF_vars(EngineLoaded)
    /\ WF_vars(FpsScriptEvent) /\ WF_vars(FpsPoll)

----------------------------------------------------------------------------
(* The notification's specification: showNotification and hideNotification  *)
(* of the store are called in any order while the timers set by             *)
(* showNotification run out.                                                *)

MaxShows == 3

NotificationMessages == {"exported", "export failed", "copied"}

NotificationTypes == {"success", "error", "info"}

\* showNotification(message, type): the notification is set and a timer of
\* 3000 ms is started.
ShowNotification ==
    /\ ntfCalls < MaxShows
    /\ \E message \in NotificationMessages, type \in NotificationTypes :
          ntfNotification' = [show |-> TRUE, message |-> message, type |-> type]
    /\ ntfCalls' = ntfCalls + 1
    /\ ntfTimers' = ntfTimers \cup {ntfCalls + 1}
    /\ UNCHANGED <<escVars, tblVars, rndVars, genVars, cmpVars, hldVars, strVars, iniVars, fpsVars>>

\* The callback of a timer: timers of one delay run out in the order they
\* were set.
TimerFires ==
    /\ ntfTimers # {}
    /\ LET timer == CHOOSE t \in ntfTimers : \A u \in ntfTimers : t <= u
       IN  ntfTimers' = ntfTimers \ {timer}
    /\ ntfNotification' = [ntfNotification EXCEPT !.show = FALSE]
    /\ UNCHANGED <<ntfCalls, escVars, tblVars, rndVars, genVars, cmpVars, hldVars, strVars, iniVars, fpsVars>>

\* hideNotification().
HideNotification ==
    /\ ntfNotification' = [ntfNotification EXCEPT !.show = FALSE]
    /\ UNCHANGED <<ntfTimers, ntfCalls, escVars, tblVars, rndVars, genVars, cmpVars, hldVars, strVars, iniVars, fpsVars>>

NtfInit ==
    /\ FpsIdle
    /\ IniIdle
    /\ StrIdle
    /\ HldIdle
    /\ EscIdle
    /\ TblIdle
    /\ RndIdle
    /\ GenIdle
    /\ CmpIdle
    /\ NtfIdle

NtfNext == ShowNotification \/ TimerFires \/ HideNotification

NtfSpec == NtfInit /\ [][NtfNext]_vars

----------------------------------------------------------------------------
(* Claims about the escaper. *)

\* The character-by-character substitution of the table.
CharByChar(text) ==
    Concat(SeqOf(Len(text), LAMBDA i :
               IF text[i] \in SpecialChars THEN EscapedForm(text[i])
               ELSE <<text[i]>>))

\* C1: without preserveMath, escapeLaTeX returns the concatenation, in order,
\* of the table's escaped form of each special character and of every other
\* character unchanged; nothing a substitution introduced is escaped again.
C1_CharByChar ==
    (escPc = "done" /\ ~escPreserveMath) => escResult = CharByChar(escText)

\* The input cut at the spans the scan extracts: each span verbatim, every
\* character outside the spans as escapeText renders it.
RECURSIVE SpansVerbatim(_, _)
SpansVerbatim(text, i) ==
    IF i > Len(text) THEN <<>>
    ELSE LET e == MathEnd(text, i)
         IN  IF e > 0 THEN SubSeq(text, i, e) \o SpansVerbatim(text, e + 1)
             ELSE escapeText(<<text[i]>>) \o SpansVerbatim(text, i + 1)

\* C2: with preserveMath, every math span the scan extracts is in the output
\* byte for byte, at the position it was extracted from.
C2_MathVerbatim ==
    (escPc = "done" /\ escPreserveMath) => escResult = SpansVerbatim(escText, 1)

\* C3: escapeLaTeX("price $5 $x^2$ done", true) still holds the span $x^2$,
\* and escapeLaTeX("a_b $x^2$ c_d", true) is a\_b $x^2$ c\_d.
C3_Samples ==
    (escPc = "done" /\ escPreserveMath) =>
        /\ escText = PriceText =>
               IndexOf(escResult, <<"$", "x", "^", "2", "$">>) > 0
        /\ escText = AbText =>
               escResult = <<"a", "\\", "_", "b", " ", "$", "x", "^", "2", "$",
                             " ", "c", "\\", "_", "d">>


\* The characters of text in the range U+4E00..U+9FA5 (19968..40869).
Ideographs(text) ==
    {i \in 1..Len(text) :
        /\ text[i] \in DOMAIN NonAsciiCode
        /\ NonAsciiCode[text[i]] \in 19968..40869}

\* C18: getTextWidth(text) is the number of characters of text (its UTF-16
\* code units, which getTextWidth counts by text.length) plus the number of
\* its characters in U+4E00..U+9FA5; the empty string gives 0, "ab" gives 2,
\* two ideographs give 4, an ideograph followed by "a" gives 3.
C18_TextWidth ==
    escPc = "width" =>
        /\ escWidth = Len(escText) + Cardinality(Ideographs(escText))
        /\ escText = <<>> => escWidth = 0
        /\ escText = <<"a", "b">> => escWidth = 2
        /\ escText = <<"U4E2D", "U9FA5">> => escWidth = 4
        /\ escText = <<"U4E2D", "a">> => escWidth = 3

\* getTextWidth returned 3 for the last ideograph of the range followed by
\* the character after the range.
C18_Witness ==
    /\ escPc = "width"
    /\ escText = <<"U9FA5", "U9FA6">>
    /\ escWidth = 3

\* text holds a string of the form of a placeholder.
HoldsPlaceholder(text) == \E idx \in 0..9 : IndexOf(text, Placeholder(idx)) > 0

\* C22: the math placeholders never collide with the text: for a text that
\* itself holds a string of the placeholder's form, escapeLaTeX(text, true)
\* puts each math span back where it was taken from and leaves the literal
\* string where it was.
C22_NoCollision ==
    (escPc = "done" /\ escPreserveMath /\ HoldsPlaceholder(escText)) =>
        /\ escResult = SpansVerbatim(escText, 1)
        /\ \A idx \in 0..9 :
               IndexOf(escText, Placeholder(idx)) = IndexOf(escResult, Placeholder(idx))

----------------------------------------------------------------------------
(* Claims about the table processor. *)

\* processTable returned a result for a table that has rows.
TblDone == tblPc = "done" /\ tblResult.hasAnalysis

\* Column col of the table holds a cell at least autoWrapThreshold wide.
IsLongColumn(col) ==
    \E row \in 1..Len(tblRows) :
        getCellDisplayLength(CellAt(tblRows, row, col)) >= tblConfig.autoWrapThreshold

\* C6: the environment is chosen by the first rule that matches: more than 30
\* rows gives longtable; otherwise no long-text column gives tabular;
\* otherwise at most 5 columns gives tabularx; otherwise tabular.  It depends
\* on the row count, the column count and the existence of a long-text column
\* only.
C6_EnvironmentOrder ==
    TblDone =>
        LET numRows == Len(tblRows)
            numCols == Len(tblRows[1])
            hasLong == \E col \in 1..numCols : IsLongColumn(col)
        IN  /\ numRows > 30 => tblResult.environment = "longtable"
            /\ (numRows <= 30 /\ ~hasLong) => tblResult.environment = "tabular"
            /\ (numRows <= 30 /\ hasLong /\ numCols <= 5) =>
                   tblResult.environment = "tabularx"
            /\ (numRows <= 30 /\ hasLong /\ numCols > 5) =>
                   tblResult.environment = "tabular"

\* A table of 31 rows and at most 5 columns with a long-text column: the rule
\* of the row count wins over the rule of tabularx.
C6_Witness ==
    /\ TblDone
    /\ Len(tblRows) = 31
    /\ Len(tblRows[1]) <= 5
    /\ \E col \in 1..Len(tblRows[1]) : IsLongColumn(col)
    /\ tblResult.environment = "longtable"

\* C7: in tabular and longtable output, the final width of every long-text
\* column lies in [0.10, 0.80].
C7_WidthRange ==
    (TblDone /\ tblResult.environment # "tabularx") =>
        \A col \in 1..Len(tblRows[1]) :
            IsLongColumn(col) =>
                /\ ~tblLocals.widths[col].nan
                /\ tblLocals.widths[col].v >= 10
                /\ tblLocals.widths[col].v <= 80

\* C8: in tabular and longtable output, the final widths sum to at most
\* 1 - 0.05 - 0.02 * (numCols - 1), and to exactly that when the clamped widths
\* summed to more.
C8_WidthSum ==
    (TblDone /\ tblResult.environment # "tabularx"
        /\ \A col \in 1..Len(tblRows[1]) : ~tblLocals.widths[col].nan) =>
        LET available == 100 - 5 - 2 * (Len(tblRows[1]) - 1)
            final == SumSeq([col \in 1..Len(tblRows[1]) |->
                                tblLocals.widths[col].v])
            clamped == SumWidths(ClampedWidths(tblResult.analysis.columnMaxLengths,
                                               tblResult.analysis.longTextColumns))
        IN  /\ final <= available
            /\ (tblResult.analysis.hasLongText /\ clamped.v > available) =>
                   final = available

\* The column specifier is a box: p, m or b, a width and \textwidth in braces.
IsBoxSpec(spec, alignment, w) ==
    spec = <<(CASE alignment = "center" -> "m"
                [] alignment = "right" -> "b"
                [] OTHER -> "p"), "{">>
           \o FormatWidth(w)
           \o <<"\\", "t", "e", "x", "t", "w", "i", "d", "t", "h", "}">>

\* The column specifier is the letter of the alignment.
IsLetterSpec(spec, alignment) ==
    spec = <<(CASE alignment = "center" -> "c"
                [] alignment = "right" -> "r"
                [] OTHER -> "l")>>

\* C9: in tabular and longtable output the column specification has one entry
\* for each column, joined by blanks: a box for a long-text column whose width
\* is greater than zero, the alignment letter for every other column, a
\* long-text column of width zero, of negative width or of width NaN included.
C9_BoxOnlyForPositiveWidth ==
    (TblDone /\ tblResult.environment # "tabularx") =>
        LET numCols == Len(tblRows[1])
            specs == tblLocals.specs
            begin == <<"\\", "b", "e", "g", "i", "n", "{">>
                     \o EnvName(tblResult.environment) \o <<"}", "{">>
                     \o Join(specs, <<" ">>) \o <<"}", "\n">>
        IN  /\ Len(specs) = numCols
            /\ SubSeq(tblResult.latexCode, 1, Len(begin)) = begin
            /\ \A col \in 1..numCols :
                   LET w == tblLocals.widths[col]
                       alignment == AlignmentAt(tblAlignments, col)
                   IN  IF IsLongColumn(col) /\ ~w.nan /\ w.v > 0
                       THEN IsBoxSpec(specs[col], alignment, w.v)
                       ELSE IsLetterSpec(specs[col], alignment)

\* A long-text column whose computed width is zero got its letter.
C9_Witness ==
    /\ TblDone
    /\ tblResult.environment # "tabularx"
    /\ \E col \in 1..Len(tblRows[1]) :
           /\ IsLongColumn(col)
           /\ tblLocals.widths[col] = Num(0)
           /\ IsLetterSpec(tblLocals.specs[col], AlignmentAt(tblAlignments, col))

\* C11: the analysis of a table that has rows holds one maximum length and
\* one alignment for each column: columnMaxLengths.length = numCols =
\* alignments.length, whatever the length of the alignments argument and of
\* the rows.
C11_AnalysisLengths ==
    TblDone =>
        /\ Len(tblResult.analysis.columnMaxLengths) = tblResult.analysis.numCols
        /\ tblResult.analysis.numCols = Len(tblResult.analysis.alignments)

\* C12: a tableStyle outside the enumeration is rejected before anything is
\* emitted: processTable, called on a table that has rows under a tableStyle
\* that is neither booktabs nor standard, returns no LaTeX code.
C12_OutOfEnumRejected ==
    (tblPc = "done" /\ tblConfig.tableStyle \notin TableStyles)
        => tblResult.latexCode = <<>>

\* The number of entries of seq equal to x.
Count(seq, x) == Cardinality({k \in 1..Len(seq) : seq[k] = x})

\* C10: the result of a table that has rows is consistent: latexCode opens
\* and closes the environment of the environment field; its rules are
\* \toprule, \midrule and \bottomrule when tableStyle is booktabs and \hline
\* otherwise; packages holds booktabs iff tableStyle is booktabs, tabularx iff
\* the environment is tabularx, longtable iff it is longtable, none twice.
\* The scenario table (3 rows, 2 columns, one long, threshold 20, booktabs)
\* begins \begin{tabularx}{\textwidth}{l X} and needs tabularx and booktabs.
C10_ResultConsistent ==
    TblDone =>
        LET code == tblResult.latexCode
            env == tblResult.environment
            booktabs == tblConfig.tableStyle = "booktabs"
            open == <<"\\", "b", "e", "g", "i", "n", "{">> \o EnvName(env) \o <<"}">>
            close == <<"\\", "e", "n", "d", "{">> \o EnvName(env) \o <<"}">>
            Has(rule) == IndexOf(code, <<"\n">> \o rule \o <<"\n">>) > 0
        IN  /\ SubSeq(code, 1, Len(open)) = open
            /\ SubSeq(code, Len(code) - Len(close) + 1, Len(code)) = close
            /\ booktabs <=> (Has(Toprule) /\ Has(Midrule) /\ Has(Bottomrule))
            /\ booktabs <=> ~Has(Hline)
            /\ Count(tblResult.packages, "booktabs") = (IF booktabs THEN 1 ELSE 0)
            /\ Count(tblResult.packages, "tabularx")
                   = (IF env = "tabularx" THEN 1 ELSE 0)
            /\ Count(tblResult.packages, "longtable")
                   = (IF env = "longtable" THEN 1 ELSE 0)
            /\ (tblRows = ScenarioRows /\ tblConfig.autoWrapThreshold = 20
                    /\ booktabs) =>
                   /\ SubSeq(code, 1, 34) =
                          <<"\\", "b", "e", "g", "i", "n", "{", "t", "a", "b", "u",
                            "l", "a", "r", "x", "}", "{", "\\", "t", "e", "x", "t",
                            "w", "i", "d", "t", "h", "}", "{", "l", " ", "X", "}",
                            "\n">>
                   /\ Count(tblResult.packages, "tabularx") = 1
                   /\ Count(tblResult.packages, "booktabs") = 1

\* processTable returned the result of the scenario table.
C10_Witness ==
    /\ TblDone
    /\ tblRows = ScenarioRows
    /\ tblConfig = [tableStyle |-> "booktabs", autoWrapThreshold |-> 20]
    /\ tblResult.environment = "tabularx"
    /\ tblResult.packages = <<"booktabs", "tabularx">>


----------------------------------------------------------------------------
(* Claims about the renderer. *)

\* render returned at least once; the document of its last call.
Rendered == Len(rndCalls) >= 1

LastDoc == Docs[rndCalls[Len(rndCalls)]]

\* What render returns for each document on a renderer just constructed
\* with each table configuration, computed once.
FreshResults ==
    LET Fresh(call) ==
            LET fresh == LatexRenderer(call[2])
            IN  render(Docs[call[1]], fresh.packages, fresh.flags, fresh.config)
    IN  [call \in DocNames \X RndConfigs |-> Fresh(call)] @@ <<>>

\* C4: the packages and the five flags render(B) returns on a renderer that
\* rendered other documents before are those render(B) returns on a renderer
\* just constructed with the same table configuration.
C4_NoAccumulation ==
    Rendered =>
        LET expected == FreshResults[<<rndCalls[Len(rndCalls)], rndCallConfig>>]
        IN  /\ rndResult.packages = expected.packages
            /\ rndResult.flags = expected.flags

\* render of the heading document returned no package and no flag after
\* render of the fenced code block had added listings and xcolor and set
\* hasCode.
C4_Witness ==
    /\ Len(rndCalls) = 2
    /\ rndCalls[1] = "fence"
    /\ rndCalls[2] = "heading"
    /\ rndResult.packages = {}
    /\ rndResult.flags = NoFlags

\* The children of the inline tokens of a document.
DocChildren(doc) ==
    UNION {{doc.tokens[i].children[k] : k \in 1..Len(doc.tokens[i].children)} :
              i \in 1..Len(doc.tokens)}

\* The packages the tokens of a document require.
RequiredPackages(doc, config) ==
    LET types == {doc.tokens[i].type : i \in 1..Len(doc.tokens)}
        childTypes == {child.type : child \in DocChildren(doc)}
        tables == {i \in 1..Len(doc.tokens) : doc.tokens[i].type = "table_open"}
        TablePackages(i) ==
            LET tableData == extractTableData(doc.tokens, i)
                environment ==
                    processTable(tableData.rows, tableData.alignments,
                                 config).environment
            IN  (IF config.tableStyle = "booktabs" THEN {"booktabs"} ELSE {})
                \cup (IF environment # "tabular" THEN {environment} ELSE {})
    IN  (IF "image" \in childTypes THEN {"graphicx"} ELSE {})
        \cup (IF "link_open" \in childTypes THEN {"hyperref"} ELSE {})
        \cup (IF "s_open" \in childTypes THEN {"ulem"} ELSE {})
        \cup (IF types \cap {"fence", "code_block"} # {}
              THEN {"listings", "xcolor"} ELSE {})
        \cup UNION {TablePackages(i) : i \in tables}

\* C5: in the result of render(doc), hasImages holds iff the document has an
\* image token, hasTables iff it has a table, hasCode iff it has a fenced or
\* an indented code block, hasMath iff it has a math span, hasChinese iff it
\* has a CJK ideograph, and packages is the union of the packages its tokens
\* require.
C5_FlagsReflectContent ==
    Rendered =>
        LET doc == LastDoc
            types == {doc.tokens[i].type : i \in 1..Len(doc.tokens)}
        IN  /\ rndResult.flags.hasImages
                   <=> (\E child \in DocChildren(doc) : child.type = "image")
            /\ rndResult.flags.hasTables <=> ("table_open" \in types)
            /\ rndResult.flags.hasCode
                   <=> (types \cap {"fence", "code_block"} # {})
            /\ rndResult.flags.hasMath
                   <=> (\E i \in 1..Len(doc.markdown) : MathEnd(doc.markdown, i) > 0)
            /\ rndResult.flags.hasChinese
                   <=> (\E i \in 1..Len(doc.markdown) : IsCJK(doc.markdown[i]))
            /\ rndResult.packages = RequiredPackages(doc, rndCallConfig)

\* The command the n-th level of heading is given: the n-th of section,
\* subsection, subsubsection, paragraph, subparagraph, and subparagraph for
\* every level beyond 5.
LevelCommand(n) ==
    CASE n = 1 -> <<"s", "e", "c", "t", "i", "o", "n">>
      [] n = 2 -> <<"s", "u", "b", "s", "e", "c", "t", "i", "o", "n">>
      [] n = 3 -> <<"s", "u", "b", "s", "u", "b", "s", "e", "c", "t", "i", "o", "n">>
      [] n = 4 -> <<"p", "a", "r", "a", "g", "r", "a", "p", "h">>
      [] n >= 5 -> <<"s", "u", "b", "p", "a", "r", "a", "g", "r", "a", "p", "h">>

\* The documents that hold headings only, and the levels of their headings.
HeadingDocs == {"heading", "headings", "deep"}

HeadingLevels(doc) ==
    SeqOf(Len(doc.tokens) \div 3,
          LAMBDA k : CHOOSE n \in 1..9 : doc.tokens[3 * k - 2].tag = <<"h">> \o Digits(n))

\* C16: a heading of level n is rendered with the n-th command of section,
\* subsection, subsubsection, paragraph, subparagraph, and every level beyond
\* 5 with subparagraph: the render of a document of headings is, for each
\* heading in order, \command{text} with the command of its level.
C16_HeadingCommand ==
    (Rendered /\ rndCalls[Len(rndCalls)] \in HeadingDocs) =>
        LET levels == HeadingLevels(LastDoc)
        IN  rndResult.content =
                Join(SeqOf(Len(levels),
                           LAMBDA k : <<"\\">> \o LevelCommand(levels[k]) \o <<"{">>
                                      \o LastDoc.tokens[3 * k - 1].children[1].content
                                      \o <<"}">>),
                     <<"\n", "\n">>)

\* render returned \subparagraph{G} for the heading of level 7.
C16_Witness ==
    /\ Rendered
    /\ rndCalls[Len(rndCalls)] = "deep"
    /\ HeadingLevels(LastDoc) = <<7>>
    /\ rndResult.content =
           <<"\\", "s", "u", "b", "p", "a", "r", "a", "g", "r", "a", "p", "h",
             "{", "G", "}">>

\* The types renderToken has a case for.
RecognizedTypes ==
    {"heading_open", "paragraph_open", "bullet_list_open", "ordered_list_open",
     "blockquote_open", "fence", "code_block", "table_open", "hr"}

\* The block tokens of a type that neither renderToken nor markdown-it's
\* own block rules know.
IsUnknownBlock(token) == token.type = "html_block"

\* doc without its unknown block tokens.
WithoutUnknown(doc) ==
    [doc EXCEPT !.tokens = SelectSeq(doc.tokens, LAMBDA t : ~IsUnknownBlock(t))]

\* C17: a block token of a type renderToken does not recognize is a no-op: it
\* is rendered to the empty string, with no package and no flag, and render
\* returns for the token stream the content, the packages and the flags it
\* returns for the stream without these tokens.
C17_UnknownTokenNoOp ==
    (Rendered /\ \E i \in 1..Len(LastDoc.tokens) : IsUnknownBlock(LastDoc.tokens[i])) =>
        /\ \A i \in 1..Len(LastDoc.tokens) :
               IsUnknownBlock(LastDoc.tokens[i]) =>
                   /\ LastDoc.tokens[i].type \notin RecognizedTypes
                   /\ renderToken(LastDoc.tokens, i, rndCallConfig) = Ret(<<>>, {}, {})
        /\ rndResult = render(WithoutUnknown(LastDoc), {}, NoFlags, rndCallConfig)

\* render returned for the stream with four unknown block tokens: at the top
\* level, in a blockquote, in a list item and at the end.
C17_Witness ==
    /\ Rendered
    /\ rndCalls[Len(rndCalls)] = "unknown"
    /\ Cardinality({i \in 1..Len(LastDoc.tokens) : IsUnknownBlock(LastDoc.tokens[i])}) = 4
    /\ Len(WithoutUnknown(LastDoc).tokens) = Len(LastDoc.tokens) - 4
    /\ rndResult.content # <<>>

\* The documents whose paragraphs all sit in a list item or in a blockquote.
EnclosedDocs == {"list", "quote", "nested"}

\* text is one of the blocks of content that renderTokens joined with an
\* empty line: a block of the top level.
IsTopLevelBlock(content, text) ==
    LET sep == <<"\n", "\n">>
        padded == sep \o content \o sep
        block == sep \o text \o sep
    IN  \E i \in 1..(Len(padded) - Len(block) + 1) :
           SubSeq(padded, i, i + Len(block) - 1) = block

\* C19: each handler consumes the tokens it renders: in the output of render
\* the inline content of a paragraph that sits in a list item or in a
\* blockquote is inside the environment that encloses it and is not emitted
\* again as a paragraph of the top level.
C19_ContentOnce ==
    (Rendered /\ rndCalls[Len(rndCalls)] \in EnclosedDocs) =>
        \A i \in 1..Len(LastDoc.tokens) :
            LastDoc.tokens[i].type = "inline" =>
                ~IsTopLevelBlock(rndResult.content,
                                 renderInline(LastDoc.tokens[i]).out)

\* The number of places of text where pat occurs.
Occurrences(text, pat) ==
    Cardinality({i \in 1..(Len(text) - Len(pat) + 1) :
                    SubSeq(text, i, i + Len(pat) - 1) = pat})

\* The first block of content: the text up to the first empty line.
FirstBlock(content) ==
    LET ends == {i \in 1..(Len(content) - 1) : SubSeq(content, i, i + 1) = <<"\n", "\n">>}
    IN  IF ends = {} THEN content ELSE SubSeq(content, 1, Min(ends) - 1)

\* C20: nested lists are matched by depth.  The document nested is a list of
\* the items a and c whose item a holds a list of the one item b: the outer
\* environment, the first block of the output, holds one \item for a and one
\* for c, the item after the nested list, and the item b once, in the
\* nested environment: three \item and two environments in all.
C20_NestedItems ==
    (Rendered /\ rndCalls[Len(rndCalls)] = "nested") =>
        LET outer == FirstBlock(rndResult.content)
            item == <<"\\", "i", "t", "e", "m", " ">>
        IN  /\ Occurrences(outer, item \o <<"a">>) = 1
            /\ Occurrences(outer, item \o <<"c">>) = 1
            /\ Occurrences(outer, item \o <<"b">>) = 1
            /\ Occurrences(outer, item) = 3
            /\ Occurrences(outer, BeginCmd) = 2
            /\ Occurrences(outer, EndCmd) = 2

\* The open markers of processInlineFormatting.
OpenMarkers == {"strong_open", "em_open", "s_open", "link_open"}

\* The decoration the open marker gives the text child after it.
Decorated(marker, textToken) ==
    IF marker.type = "link_open"
    THEN <<"\\", "h", "r", "e", "f", "{">> \o marker.attr \o <<"}", "{">>
         \o escapeLaTeX(textToken.content, FALSE) \o <<"}">>
    ELSE WrapCommand(marker.type) \o escapeLaTeX(textToken.content, TRUE) \o <<"}">>

\* The inline container rendered child by child, each text child that
\* follows an open marker decorated at its own position.
DecoratedInPlace(children) ==
    Concat(SeqOf(Len(children),
                 LAMBDA k :
                     IF /\ k > 1
                        /\ children[k - 1].type \in OpenMarkers
                        /\ children[k].type = "text"
                     THEN Decorated(children[k - 1], children[k])
                     ELSE renderInlineChild(children[k]).out))

\* The last document is one paragraph.
IsParagraphDoc(doc) ==
    /\ Len(doc.tokens) = 3
    /\ doc.tokens[1].type = "paragraph_open"
    /\ doc.tokens[2].type = "inline"

\* C21: an open marker of bold, italic, strikethrough or link wraps the text
\* child that follows it, at the position of that child in the output, also
\* when the same text occurs earlier in the paragraph: the render of a
\* paragraph is its children in order, each text child after an open marker
\* inside its decoration and no other text decorated.
C21_DecoratedInPlace ==
    (Rendered /\ IsParagraphDoc(LastDoc)) =>
        rndResult.content = DecoratedInPlace(LastDoc.tokens[2].children)

\* C24: the packages of every result a caller keeps are the packages of the
\* document that result was rendered from, whatever was rendered after it.
C24_KeptResultValid ==
    \A k \in 1..Len(hldResults) :
        hldResults[k].packages =
            render(Docs[rndCalls[k]], {}, NoFlags, rndConfig).packages

\* The names of the environments of lists and quotes.
BlockEnvironments ==
    {<<"i", "t", "e", "m", "i", "z", "e">>,
     <<"e", "n", "u", "m", "e", "r", "a", "t", "e">>,
     <<"q", "u", "o", "t", "e">>}

\* The \begin and \end commands of the block environments in text, in the
\* order of their positions.
EnvironmentMarks(text) ==
    LET at(p, cmd, env) ==
            LET pat == cmd \o env \o <<"}">>
            IN  p + Len(pat) - 1 <= Len(text)
                /\ SubSeq(text, p, p + Len(pat) - 1) = pat
        begins(p) == {env \in BlockEnvironments : at(p, BeginCmd, env)}
        ends(p) == {env \in BlockEnvironments : at(p, EndCmd, env)}
        places == {p \in 1..Len(text) : begins(p) \cup ends(p) # {}}
        place(k) == CHOOSE p \in places :
                        Cardinality({q \in places : q < p}) = k - 1
    IN  [k \in 1..Cardinality(places) |->
            IF begins(place(k)) # {}
            THEN [begin |-> TRUE, env |-> CHOOSE env \in begins(place(k)) : TRUE]
            ELSE [begin |-> FALSE, env |-> CHOOSE env \in ends(place(k)) : TRUE]]

RECURSIVE WellNested(_, _, _)
\* The marks from k on close the environments of open, innermost first, and
\* every environment they begin.
WellNested(marks, k, open) ==
    IF k > Len(marks) THEN open = <<>>
    ELSE IF marks[k].begin
    THEN WellNested(marks, k + 1, <<marks[k].env>> \o open)
    ELSE /\ open # <<>>
         /\ open[1] = marks[k].env
         /\ WellNested(marks, k + 1, Tail(open))

\* C26: in the string renderTokens returns for a stream of list, item, quote
\* and paragraph tokens, with close tokens missing or of another type or
\* not, every \begin of itemize, enumerate and quote has its \end and the
\* environments are properly nested.
C26_EnvironmentsBalanced ==
    strPc = "done" => WellNested(EnvironmentMarks(strContent), 1, <<>>)

\* A stream whose quote and whose list are never closed was rendered to
\* environments that are.
C26_Witness ==
    /\ strPc = "done"
    /\ \E k \in 1..Len(strTokens) : strTokens[k].type = "blockquote_open"
    /\ \E k \in 1..Len(strTokens) : IsListOpen(strTokens[k].type)
    /\ \A k \in 1..Len(strTokens) : strTokens[k].type \notin CloseTypes
    /\ Len(EnvironmentMarks(strContent)) >= 4

----------------------------------------------------------------------------
(* Claims about the compile service. *)

\* C13: a failure that crosses the compiler boundary is returned as a
\* structured result: the promise of compile is never rejected; when it
\* resolves, success = true comes with a PDF and success = false with an
\* error text.
C13_StructuredResult ==
    /\ cmpOutcome.kind # "rejected"
    /\ cmpOutcome.kind = "resolved" =>
           /\ cmpOutcome.success => cmpOutcome.pdf
           /\ ~cmpOutcome.success => cmpOutcome.error # ""

\* C23: while engine.compileLaTeX() runs, the file main.tex the engine
\* compiles holds the latexContent that compile was called with.
C23_MainTexIsContent ==
    cmpPc = "compileLaTeX" => cmpMainTex = cmpLatexContent

\* The values of progress that emitProgress delivered, in order.
ProgressValues == [k \in 1..Len(cmpProgress) |-> cmpProgress[k].progress]

\* The last compile call resolved with success.
CompileSucceeded ==
    cmpPc = "idle" /\ cmpOutcome.kind = "resolved" /\ cmpOutcome.success

\* C29: over a compile call that resolved with success, the progress values
\* delivered never decrease, and the last one is 100 at stage complete.
C29_ProgressMonotone ==
    CompileSucceeded =>
        /\ \A k \in 1..(Len(cmpProgress) - 1) :
              ProgressValues[k] <= ProgressValues[k + 1]
        /\ cmpProgress # <<>>
        /\ cmpProgress[Len(cmpProgress)] = [stage |-> "complete", progress |-> 100]

----------------------------------------------------------------------------
(* Claims about the document generator. *)

GenDone == genPc = "done"

\* The index of the first line of the generated document equal to line, 0
\* when there is none.
LineIndex(line) ==
    First({i \in 1..Len(genOutput) : genOutput[i] = line})

\* The lines of the generated document from index lo to index hi that are
\* not empty.
LinesBetween(lo, hi) ==
    SelectSeq(SubSeq(genOutput, lo, hi), LAMBDA line : line # "")

\* C14: generate emits its sections in this order: the \documentclass line
\* with the font size and page size options, the package block, the document
\* configuration (geometry, parindent, parskip), \begin{document},
\* \tableofcontents and \newpage iff enableTOC, the content of the render
\* result, once and unmodified, and \end{document} as the last line.
C14_SectionOrder ==
    GenDone =>
        LET n == Len(genOutput)
            packages == LineIndex("\\usepackage{geometry}")
            float == LineIndex("\\usepackage{float}")
            geometry == LineIndex("\\geometry{")
            parindent == LineIndex("\\setlength{\\parindent}{0pt}")
            parskip == LineIndex("\\setlength{\\parskip}{0.5em}")
            begin == LineIndex("\\begin{document}")
            content == n - 1 - Len(genResult.content)
        IN  /\ genOutput[1] =
                   "\\documentclass[" \o genConfig.fontSize \o ","
                   \o genConfig.pageSize \o "]{" \o genConfig.documentClass \o "}"
            /\ 1 < packages /\ packages < float /\ float < geometry
            /\ geometry < parindent /\ parindent < parskip /\ parskip < begin
            /\ begin < content
            /\ LinesBetween(begin + 1, content - 1) =
                   IF genConfig.enableTOC
                   THEN <<"\\tableofcontents", "\\newpage">> ELSE <<>>
            /\ SubSeq(genOutput, content, n - 2) = genResult.content
            /\ LinesBetween(n - 1, n) = <<"\\end{document}">>
            /\ genOutput[n] = "\\end{document}"

\* generate returned a document with a table of contents for a content of
\* several lines.
C14_Witness ==
    /\ GenDone
    /\ Len(genResult.content) = 3
    /\ genConfig.enableTOC
    /\ LineIndex("\\tableofcontents") = LineIndex("\\begin{document}") + 2
    /\ genResult.content[1] \in {genOutput[i] : i \in 1..Len(genOutput)}

\* The lines of the package block of the generated document: the lines
\* after the \documentclass line and before the geometry settings.
PackageBlock ==
    {genOutput[i] : i \in 2..(LineIndex("\\geometry{") - 1)}

----------------------------------------------------------------------------
(* Claims about the pipeline of render and generate. *)

\* The commands of the rendered content that need a package, each with the
\* line that imports the package.
PackageNeeds ==
    {[command |-> <<"\\", "s", "o", "u", "t", "{">>,
      import |-> "\\usepackage[normalem]{ulem}"],
     [command |-> <<"\\", "h", "r", "e", "f", "{">>,
      import |-> "\\usepackage{hyperref}"],
     [command |-> <<"\\", "i", "n", "c", "l", "u", "d", "e", "g", "r", "a",
                    "p", "h", "i", "c", "s">>,
      import |-> "\\usepackage{graphicx}"],
     [command |-> BeginCmd \o <<"l", "s", "t", "l", "i", "s", "t", "i", "n", "g", "}">>,
      import |-> "\\usepackage{listings}"],
     [command |-> BeginCmd \o <<"t", "a", "b", "u", "l", "a", "r", "x", "}">>,
      import |-> "\\usepackage{tabularx}"],
     [command |-> BeginCmd \o <<"l", "o", "n", "g", "t", "a", "b", "l", "e", "}">>,
      import |-> "\\usepackage{longtable}"],
     [command |-> Toprule, import |-> "\\usepackage{booktabs}"],
     [command |-> Midrule, import |-> "\\usepackage{booktabs}"],
     [command |-> Bottomrule, import |-> "\\usepackage{booktabs}"]}

\* generate returned the document of the rendered content.
PipDone == genPc = "done" /\ Len(rndCalls) = 1

\* The lines of the generated document before \begin{document}.
Preamble ==
    {genOutput[i] : i \in 1..(LineIndex("\\begin{document}") - 1)}

----------------------------------------------------------------------------
(* Claims about overlapping calls. *)

\* C27: whatever the interleaving of the initialize calls, every engine
\* instance constructed so far is the one this.engine holds or had its
\* closeWorker called: at most one engine is alive.
C27_OneEngine ==
    \A e \in 1..iniInstances : e = iniHeld \/ e \in iniClosed

\* C28: the promise of a loadEngine call that found a load in progress is
\* settled in the end, for the SwiftLaTeXService and the FrontendPdfService.
C28_LoadSettles ==
    \A c \in Callers :
        /\ (iniPc[c] = "waiting") ~> (iniPc[c] \notin {"waiting", "abandoned"})
        /\ (fpsPc[c] = "waiting") ~> (fpsPc[c] \in {"resolved", "rejected"})

----------------------------------------------------------------------------
(* Claims about the notification. *)

\* C30: a notification that is shown is hidden only by hideNotification or
\* by the timer that its own showNotification call set, never by the timer
\* of an earlier call.
C30_OwnTimerHides ==
    [][(ntfNotification.show /\ ~ntfNotification'.show /\ ntfTimers' # ntfTimers)
          => ntfTimers \ ntfTimers' = {ntfCalls}]_vars


=============================================================================
